---- MODULE Spec2Model ----
(***************************************************************************)
(* Maze graph (nodes.py) and tick-based entity movement (entity.py,        *)
(* pacman.py) of Py-Man.                                                   *)
(*                                                                         *)
(* Nodes are Python objects: they live in `heap` (a sequence of node       *)
(* records, a node's identity is its index) and nodesLUT maps pixel keys   *)
(* to identities.  `None` is the identity of no node.  `level` is the grid *)
(* of symbols read from the maze file.                                     *)
(* Time is counted in hundredths of a second, lengths in pixels.           *)
(***************************************************************************)
EXTENDS Integers, Sequences, FiniteSets, TLC

VARIABLES nodesLUT, heap, homekey, level,
          cls, name, node, target, startNode, position, direction, speed,
          visible, disablePortal, alive, calls, last,
          pause, game, bodies

graphVars == <<nodesLUT, heap, homekey, level>>
entityVars == <<cls, name, node, target, startNode, position, direction, speed,
                visible, disablePortal, alive>>
vars == <<nodesLUT, heap, homekey, level, cls, name, node, target, startNode, position,
          direction, speed, visible, disablePortal, alive, calls, last,
          pause, game, bodies>>
ctrlVars == <<pause, game, bodies>>

-----------------------------------------------------------------------------
(* constants.py *)
STOP == 0
UP == 1
DOWN == -1
LEFT == 2
RIGHT == -2
PORTAL == 3
TILEWIDTH == 16
TILEHEIGHT == 16
PACMAN == "PACMAN"
BLINKY == "BLINKY"
PINKY == "PINKY"
INKY == "INKY"
CLYDE == "CLYDE"
FRUIT == "FRUIT"

(* Python's None, as a node reference and as an entity name *)
None == 0
NoName == "None"
NoKey == <<>>

(* No Pause object, no GameController and no colliding bodies constructed *)
NoPause == <<>>
NoGame == <<>>
NoBodies == <<>>
Idle ==
    /\ pause = NoPause
    /\ game = NoGame
    /\ bodies = NoBodies

-----------------------------------------------------------------------------
(* Bounds of the model *)
MaxDtSteps == 2
MaxGraphCalls == 3
MaxCells == 8
MaxAccessCalls == 3

DtQuantum == TILEWIDTH \div 2
DtValues == {k * DtQuantum : k \in 0..MaxDtSteps}

-----------------------------------------------------------------------------
(* vector.py: Vector2 arithmetic on <<x, y>> *)
VAdd(a, b) == <<a[1] + b[1], a[2] + b[2]>>
VSub(a, b) == <<a[1] - b[1], a[2] - b[2]>>
VScale(a, k) == <<a[1] * k, a[2] * k>>
VHalf(a) == <<a[1] \div 2, a[2] \div 2>>
magnitudeSquared(a) == a[1] * a[1] + a[2] * a[2]

-----------------------------------------------------------------------------
(* nodes.py: Node *)
CardinalSeq == <<UP, DOWN, LEFT, RIGHT>>
Cardinals == {UP, DOWN, LEFT, RIGHT}
AllEntities == <<PACMAN, BLINKY, PINKY, INKY, CLYDE, FRUIT>>

(* faulty variant: PORTAL is given an access list too *)
NodePortalAccess(x, y) ==
    [position |-> <<x, y>>,
     neighbors |-> [d \in Cardinals \cup {PORTAL} |-> None],
     access |-> [d \in Cardinals \cup {PORTAL} |-> AllEntities]]

Node(x, y) ==
    [position |-> <<x, y>>,
     neighbors |-> [d \in Cardinals \cup {PORTAL} |-> None],
     access |-> [d \in Cardinals |-> AllEntities]]

InList(e, list) == \E i \in DOMAIN list : list[i] = e

(* nodes.py: NodeGroup.  A node group is [nodesLUT, heap]. *)
nodeSymbols == {"+", "P", "n"}
pathSymbols == {".", "-", "|", "p"}

(* faulty variant: the coordinates are swapped *)
construct_keySwapped(x, y) == <<y * TILEHEIGHT, x * TILEWIDTH>>

construct_key(x, y) == <<x * TILEWIDTH, y * TILEHEIGHT>>

Transpose(data) ==
    [c \in 1..Len(data[1]) |-> [r \in 1..Len(data) |-> data[r][c]]]

LutPut(lut, key, id) ==
    [k \in DOMAIN lut \cup {key} |-> IF k = key THEN id ELSE lut[k]]

RECURSIVE create_node_table_from(_, _, _, _, _)
create_node_table_from(g, data, xoffset, yoffset, idx) ==
    LET ncols == Len(data[1])
        row == (idx \div ncols) + 1
        col == (idx % ncols) + 1
    IN IF idx >= Len(data) * ncols THEN g
       ELSE IF data[row][col] \in nodeSymbols
            THEN LET key == construct_key(col - 1 + xoffset, row - 1 + yoffset)
                     g2 == [nodesLUT |-> LutPut(g.nodesLUT, key, Len(g.heap) + 1),
                            heap |-> Append(g.heap, Node(key[1], key[2]))]
                 IN create_node_table_from(g2, data, xoffset, yoffset, idx + 1)
            ELSE create_node_table_from(g, data, xoffset, yoffset, idx + 1)

create_node_table(g, data, xoffset, yoffset) ==
    create_node_table_from(g, data, xoffset, yoffset, 0)

Link(h, lut, key, otherkey, fwd, back) ==
    LET h1 == [h EXCEPT ![lut[key]].neighbors[fwd] = lut[otherkey]]
    IN [h1 EXCEPT ![lut[otherkey]].neighbors[back] = lut[key]]

(* faulty variant: a blocker cell does not break the run *)
RECURSIVE connect_rowThroughBlockers(_, _, _, _, _, _, _, _)
connect_rowThroughBlockers(h, lut, data, row, col, key, xoffset, yoffset) ==
    IF col > Len(data[row]) THEN h
    ELSE IF data[row][col] \in nodeSymbols
         THEN IF key = NoKey
              THEN connect_rowThroughBlockers(h, lut, data, row, col + 1,
                               construct_key(col - 1 + xoffset, row - 1 + yoffset),
                               xoffset, yoffset)
              ELSE LET otherkey == construct_key(col - 1 + xoffset, row - 1 + yoffset)
                   IN connect_rowThroughBlockers(Link(h, lut, key, otherkey, RIGHT, LEFT),
                                  lut, data, row, col + 1, otherkey, xoffset, yoffset)
         ELSE connect_rowThroughBlockers(h, lut, data, row, col + 1, key, xoffset, yoffset)

RECURSIVE connect_row(_, _, _, _, _, _, _, _)
connect_row(h, lut, data, row, col, key, xoffset, yoffset) ==
    IF col > Len(data[row]) THEN h
    ELSE IF data[row][col] \in nodeSymbols
         THEN IF key = NoKey
              THEN connect_row(h, lut, data, row, col + 1,
                               construct_key(col - 1 + xoffset, row - 1 + yoffset),
                               xoffset, yoffset)
              ELSE LET otherkey == construct_key(col - 1 + xoffset, row - 1 + yoffset)
                   IN connect_row(Link(h, lut, key, otherkey, RIGHT, LEFT), lut, data,
                                  row, col + 1, otherkey, xoffset, yoffset)
         ELSE IF data[row][col] \notin pathSymbols
              THEN connect_row(h, lut, data, row, col + 1, NoKey, xoffset, yoffset)
              ELSE connect_row(h, lut, data, row, col + 1, key, xoffset, yoffset)

RECURSIVE connect_rows_from(_, _, _, _, _, _)
connect_rows_from(h, lut, data, row, xoffset, yoffset) ==
    IF row > Len(data) THEN h
    ELSE connect_rows_from(connect_row(h, lut, data, row, 1, NoKey, xoffset, yoffset),
                           lut, data, row + 1, xoffset, yoffset)

connect_horizontally(g, data, xoffset, yoffset) ==
    [g EXCEPT !.heap = connect_rows_from(g.heap, g.nodesLUT, data, 1, xoffset, yoffset)]

RECURSIVE connect_col(_, _, _, _, _, _, _, _)
connect_col(h, lut, dataT, col, row, key, xoffset, yoffset) ==
    IF row > Len(dataT[col]) THEN h
    ELSE IF dataT[col][row] \in nodeSymbols
         THEN IF key = NoKey
              THEN connect_col(h, lut, dataT, col, row + 1,
                               construct_key(col - 1 + xoffset, row - 1 + yoffset),
                               xoffset, yoffset)
              ELSE LET otherkey == construct_key(col - 1 + xoffset, row - 1 + yoffset)
                   IN connect_col(Link(h, lut, key, otherkey, DOWN, UP), lut, dataT,
                                  col, row + 1, otherkey, xoffset, yoffset)
         ELSE IF dataT[col][row] \notin pathSymbols
              THEN connect_col(h, lut, dataT, col, row + 1, NoKey, xoffset, yoffset)
              ELSE connect_col(h, lut, dataT, col, row + 1, key, xoffset, yoffset)

RECURSIVE connect_cols_from(_, _, _, _, _, _)
connect_cols_from(h, lut, dataT, col, xoffset, yoffset) ==
    IF col > Len(dataT) THEN h
    ELSE connect_cols_from(connect_col(h, lut, dataT, col, 1, NoKey, xoffset, yoffset),
                           lut, dataT, col + 1, xoffset, yoffset)

connect_vertically(g, data, xoffset, yoffset) ==
    [g EXCEPT !.heap = connect_cols_from(g.heap, g.nodesLUT, Transpose(data), 1,
                                         xoffset, yoffset)]

(* NodeGroup.__init__ on the grid read from the maze file *)
EmptyGroup == [nodesLUT |-> [k \in {} |-> None], heap |-> <<>>]

NodeGroup(data) ==
    LET g0 == EmptyGroup
        g1 == create_node_table(g0, data, 0, 0)
        g2 == connect_horizontally(g1, data, 0, 0)
    IN connect_vertically(g2, data, 0, 0)

(* faulty variant: only the first node is given its partner *)
set_portal_pairOneWay(g, pair1, pair2) ==
    LET key1 == construct_key(pair1[1], pair1[2])
        key2 == construct_key(pair2[1], pair2[2])
    IN IF key1 \in DOMAIN g.nodesLUT /\ key2 \in DOMAIN g.nodesLUT
       THEN [g EXCEPT !.heap[g.nodesLUT[key1]].neighbors[PORTAL] = g.nodesLUT[key2]]
       ELSE g

set_portal_pair(g, pair1, pair2) ==
    LET key1 == construct_key(pair1[1], pair1[2])
        key2 == construct_key(pair2[1], pair2[2])
    IN IF key1 \in DOMAIN g.nodesLUT /\ key2 \in DOMAIN g.nodesLUT
       THEN LET h1 == [g.heap EXCEPT ![g.nodesLUT[key1]].neighbors[PORTAL] = g.nodesLUT[key2]]
            IN [g EXCEPT !.heap =
                   [h1 EXCEPT ![g.nodesLUT[key2]].neighbors[PORTAL] = g.nodesLUT[key1]]]
       ELSE g

homedata ==
    << <<"X", "X", "+", "X", "X">>,
       <<"X", "X", ".", "X", "X">>,
       <<"+", "X", ".", "X", "+">>,
       <<"+", ".", "+", ".", "+">>,
       <<"+", "X", "X", "X", "+">> >>

(* faulty variant: the home grid is not connected vertically *)
create_home_nodesNoVertical(g, xoffset, yoffset) ==
    LET g1 == create_node_table(g, homedata, xoffset, yoffset)
    IN connect_horizontally(g1, homedata, xoffset, yoffset)

create_home_nodes(g, xoffset, yoffset) ==
    LET g1 == create_node_table(g, homedata, xoffset, yoffset)
        g2 == connect_horizontally(g1, homedata, xoffset, yoffset)
    IN connect_vertically(g2, homedata, xoffset, yoffset)

(* connect_home_nodes: both dictionary lookups happen before the first store *)
connect_home_nodes_raises(g, hkey, otherkey) ==
    \/ hkey \notin DOMAIN g.nodesLUT
    \/ construct_key(otherkey[1], otherkey[2]) \notin DOMAIN g.nodesLUT

(* faulty variant: the external node is not linked back *)
connect_home_nodesOneWay(g, hkey, otherkey, d) ==
    LET key == construct_key(otherkey[1], otherkey[2])
    IN IF connect_home_nodes_raises(g, hkey, otherkey) THEN g
       ELSE [g EXCEPT !.heap[g.nodesLUT[hkey]].neighbors[d] = g.nodesLUT[key]]

connect_home_nodes(g, hkey, otherkey, d) ==
    LET key == construct_key(otherkey[1], otherkey[2])
    IN IF connect_home_nodes_raises(g, hkey, otherkey) THEN g
       ELSE LET h1 == [g.heap EXCEPT ![g.nodesLUT[hkey]].neighbors[d] = g.nodesLUT[key]]
            IN [g EXCEPT !.heap =
                   [h1 EXCEPT ![g.nodesLUT[key]].neighbors[d * (-1)] = g.nodesLUT[hkey]]]

(* Node.deny_access / Node.allow_access on the access list of one direction *)
RemoveFirst(list, e) ==
    LET i == CHOOSE j \in DOMAIN list : list[j] = e /\ \A k \in 1..(j - 1) : list[k] # e
    IN SubSeq(list, 1, i - 1) \o SubSeq(list, i + 1, Len(list))

(* faulty variant: denying one class empties the list *)
Node_deny_accessClear(n, d, ename) ==
    IF InList(ename, n.access[d]) THEN [n EXCEPT !.access[d] = <<>>] ELSE n

Node_deny_access(n, d, ename) ==
    IF InList(ename, n.access[d])
    THEN [n EXCEPT !.access[d] = RemoveFirst(n.access[d], ename)]
    ELSE n

(* faulty variant: the class is appended without looking for it *)
Node_allow_accessAlways(n, d, ename) ==
    [n EXCEPT !.access[d] = Append(n.access[d], ename)]

Node_allow_access(n, d, ename) ==
    IF ~InList(ename, n.access[d])
    THEN [n EXCEPT !.access[d] = Append(n.access[d], ename)]
    ELSE n

get_node_from_pixels(g, x_pixel, y_pixel) ==
    IF <<x_pixel, y_pixel>> \in DOMAIN g.nodesLUT
    THEN g.nodesLUT[<<x_pixel, y_pixel>>]
    ELSE None

(* faulty variant: the tile coordinates are looked up unscaled *)
get_node_from_tilesUnscaled(g, col, row) ==
    IF <<col, row>> \in DOMAIN g.nodesLUT THEN g.nodesLUT[<<col, row>>] ELSE None

get_node_from_tiles(g, col, row) ==
    LET key == construct_key(col, row)
    IN IF key \in DOMAIN g.nodesLUT THEN g.nodesLUT[key] ELSE None

(* faulty variant: the class is removed from every direction of the node *)
deny_accessEveryDirection(g, col, row, d, ename) ==
    LET n == get_node_from_tiles(g, col, row)
    IN IF n # None
       THEN [g EXCEPT !.heap[n] =
                Node_deny_access(Node_deny_access(Node_deny_access(Node_deny_access(
                    g.heap[n], UP, ename), DOWN, ename), LEFT, ename), RIGHT, ename)]
       ELSE g

deny_access(g, col, row, d, ename) ==
    LET n == get_node_from_tiles(g, col, row)
    IN IF n # None THEN [g EXCEPT !.heap[n] = Node_deny_access(g.heap[n], d, ename)] ELSE g

allow_access(g, col, row, d, ename) ==
    LET n == get_node_from_tiles(g, col, row)
    IN IF n # None THEN [g EXCEPT !.heap[n] = Node_allow_access(g.heap[n], d, ename)] ELSE g

RECURSIVE deny_access_list(_, _, _, _, _)
deny_access_list(g, col, row, d, entities) ==
    IF entities = <<>> THEN g
    ELSE deny_access_list(deny_access(g, col, row, d, Head(entities)),
                          col, row, d, Tail(entities))

RECURSIVE allow_access_list(_, _, _, _, _)
allow_access_list(g, col, row, d, entities) ==
    IF entities = <<>> THEN g
    ELSE allow_access_list(allow_access(g, col, row, d, Head(entities)),
                           col, row, d, Tail(entities))

(* self.nodesLUT[self.homekey] raises KeyError when the key is not in the table *)
home_access_raises(g, hkey) == hkey \notin DOMAIN g.nodesLUT

(* faulty variant: the UP list of the home node is edited *)
deny_home_accessUp(g, hkey, ename) ==
    IF home_access_raises(g, hkey) THEN g
    ELSE [g EXCEPT !.heap[g.nodesLUT[hkey]] = Node_deny_access(@, UP, ename)]

deny_home_access(g, hkey, ename) ==
    IF home_access_raises(g, hkey) THEN g
    ELSE [g EXCEPT !.heap[g.nodesLUT[hkey]] = Node_deny_access(@, DOWN, ename)]

allow_home_access(g, hkey, ename) ==
    IF home_access_raises(g, hkey) THEN g
    ELSE [g EXCEPT !.heap[g.nodesLUT[hkey]] = Node_allow_access(@, DOWN, ename)]

(* the loop raises at its first entity *)
home_access_list_raises(g, hkey, entities) ==
    entities # <<>> /\ home_access_raises(g, hkey)

RECURSIVE deny_home_access_list(_, _, _)
deny_home_access_list(g, hkey, entities) ==
    IF entities = <<>> \/ home_access_raises(g, hkey) THEN g
    ELSE deny_home_access_list(deny_home_access(g, hkey, Head(entities)), hkey,
                               Tail(entities))

RECURSIVE allow_home_access_list(_, _, _)
allow_home_access_list(g, hkey, entities) ==
    IF entities = <<>> \/ home_access_raises(g, hkey) THEN g
    ELSE allow_home_access_list(allow_home_access(g, hkey, Head(entities)), hkey,
                                Tail(entities))

-----------------------------------------------------------------------------
(* entity.py: Entity.  The operators take the fields of self that they read. *)
directions(d) ==
    CASE d = UP -> <<0, -1>>
      [] d = DOWN -> <<0, 1>>
      [] d = LEFT -> <<-1, 0>>
      [] d = RIGHT -> <<1, 0>>
      [] d = STOP -> <<0, 0>>

(* self.directions[self.direction] * self.speed * dt, dt in 1/100 s *)
Advance(pos, d, spd, dt) == VAdd(pos, VScale(directions(d), (spd * dt) \div 100))

setSpeed(s) == (s * TILEWIDTH) \div 16

(* self.node.access[direction] raises KeyError where the node keeps no list *)
validDirectionRaises(n, d) == d # STOP /\ d \notin DOMAIN heap[n].access

(* faulty variant: the access list is not consulted *)
validDirectionNoAccess(selfname, n, d) ==
    IF d # STOP THEN heap[n].neighbors[d] # None ELSE FALSE

validDirection(selfname, n, d) ==
    IF d # STOP
    THEN IF InList(selfname, heap[n].access[d])
         THEN IF heap[n].neighbors[d] # None THEN TRUE ELSE FALSE
         ELSE FALSE
    ELSE FALSE

(* faulty variant: the neighbor is returned without checking that it exists *)
getNewTargetNoNeighborCheck(selfname, n, d) ==
    IF d # STOP /\ InList(selfname, heap[n].access[d]) THEN heap[n].neighbors[d] ELSE n

getNewTarget(selfname, n, d) ==
    IF validDirection(selfname, n, d) THEN heap[n].neighbors[d] ELSE n

(* faulty variant: reaching the target exactly does not count *)
overshotTargetStrict(n, t, pos) ==
    IF t # None
    THEN magnitudeSquared(VSub(pos, heap[n].position))
             > magnitudeSquared(VSub(heap[t].position, heap[n].position))
    ELSE FALSE

overshotTarget(n, t, pos) ==
    IF t # None
    THEN LET vec1 == VSub(heap[t].position, heap[n].position)
             vec2 == VSub(pos, heap[n].position)
         IN magnitudeSquared(vec2) >= magnitudeSquared(vec1)
    ELSE FALSE

(* faulty variant: STOP is not excluded *)
oppositeDirectionNoStopCheck(d, selfdir) == d = selfdir * (-1)

oppositeDirection(d, selfdir) ==
    IF d # STOP THEN (IF d = selfdir * (-1) THEN TRUE ELSE FALSE) ELSE FALSE

(* faulty variant: no forced reverse when nothing is legal *)
validDirectionsNoFallback(selfname, n, selfdir) ==
    SelectSeq(CardinalSeq,
              LAMBDA key : validDirection(selfname, n, key) /\ key # selfdir * (-1))

(* faulty variant: the reverse of the current direction is not left out *)
validDirectionsKeepReverse(selfname, n, selfdir) ==
    LET found == SelectSeq(CardinalSeq, LAMBDA key : validDirection(selfname, n, key))
    IN IF Len(found) = 0 THEN <<selfdir * (-1)>> ELSE found

validDirections(selfname, n, selfdir) ==
    LET found == SelectSeq(CardinalSeq,
                           LAMBDA key : validDirection(selfname, n, key)
                                        /\ key # selfdir * (-1))
    IN IF Len(found) = 0 THEN <<selfdir * (-1)>> ELSE found

(* the portal step of Entity.update and of PacMan.update *)
(* faulty variant: the portal link is never followed *)
EntityPortalNever(n, disable) == n

EntityPortal(n, disable) ==
    IF ~disable
    THEN (IF heap[n].neighbors[PORTAL] # None THEN heap[n].neighbors[PORTAL] ELSE n)
    ELSE n

PacManPortal(n) ==
    IF heap[n].neighbors[PORTAL] # None THEN heap[n].neighbors[PORTAL] ELSE n

(* faulty variant: the new direction is committed even when it is blocked *)
EntityResolveAlwaysCommit(selfname, n, newdir, olddir) ==
    [target |-> getNewTarget(selfname, n, newdir), direction |-> newdir]

EntityResolve(selfname, n, newdir, olddir) ==
    LET t1 == getNewTarget(selfname, n, newdir)
    IN IF t1 # n
       THEN [target |-> t1, direction |-> newdir]
       ELSE [target |-> getNewTarget(selfname, n, olddir), direction |-> olddir]

(* faulty variant: a blocked Pac-Man keeps its direction *)
PacManResolveNoStop(selfname, n, newdir, olddir) ==
    EntityResolve(selfname, n, newdir, olddir)

PacManResolve(selfname, n, newdir, olddir) ==
    LET r == EntityResolve(selfname, n, newdir, olddir)
    IN IF r.target = n THEN [r EXCEPT !.direction = STOP] ELSE r

(* reverseDirection *)
(* faulty variant: the direction is negated but node and target stay *)
ReversedNoSwap(n, t, d) == [node |-> n, target |-> t, direction |-> d * (-1)]

(* faulty variant: node and target are swapped but the direction is kept *)
ReversedKeepDirection(n, t, d) == [node |-> t, target |-> n, direction |-> d]

Reversed(n, t, d) == [node |-> t, target |-> n, direction |-> d * (-1)]

(* setBetweenNodes(direction) from a node n with target t at position pos *)
setBetweenNodes(n, t, pos, d) ==
    IF heap[n].neighbors[d] # None
    THEN [target |-> heap[n].neighbors[d],
          position |-> VHalf(VAdd(heap[n].position, heap[heap[n].neighbors[d]].position))]
    ELSE [target |-> t, position |-> pos]

(* Entity.update(dt); pick indexes the list handed to directionMethod *)
EntityUpdateResult(dt, pick) ==
    LET p1 == Advance(position, direction, speed, dt)
    IN IF overshotTarget(node, target, p1)
       THEN LET n1 == target
                dirs == validDirections(name, n1, direction)
                newdir == dirs[pick]
                n2 == EntityPortal(n1, disablePortal)
                r == EntityResolve(name, n2, newdir, direction)
            IN [node |-> n2, target |-> r.target, direction |-> r.direction,
                position |-> heap[n2].position,
                overshot |-> TRUE, arrived |-> n1, dirs |-> dirs, key |-> newdir,
                reversed |-> FALSE]
       ELSE [node |-> node, target |-> target, direction |-> direction,
             position |-> p1,
             overshot |-> FALSE, arrived |-> None, dirs |-> <<>>, key |-> STOP,
             reversed |-> FALSE]

(* PacMan.update(dt); key is what getValidKey returns *)
PacManUpdateResult(dt, key) ==
    LET p1 == Advance(position, direction, speed, dt)
    IN IF overshotTarget(node, target, p1)
       THEN LET n1 == target
                n2 == PacManPortal(n1)
                r == PacManResolve(name, n2, key, direction)
            IN [node |-> n2, target |-> r.target, direction |-> r.direction,
                position |-> heap[n2].position,
                overshot |-> TRUE, arrived |-> n1, dirs |-> <<>>, key |-> key,
                reversed |-> FALSE]
       ELSE LET rv == IF oppositeDirection(key, direction)
                      THEN Reversed(node, target, direction)
                      ELSE [node |-> node, target |-> target, direction |-> direction]
            IN [node |-> rv.node, target |-> rv.target, direction |-> rv.direction,
                position |-> p1,
                overshot |-> FALSE, arrived |-> None, dirs |-> <<>>, key |-> key,
                reversed |-> oppositeDirection(key, direction)]

(* what the last operation on the entity was and what it saw *)
Last(op, r) ==
    [op |-> op, key |-> r.key, overshot |-> r.overshot, arrived |-> r.arrived,
     dirs |-> r.dirs, reversed |-> r.reversed]

NoTick ==
    [key |-> STOP, overshot |-> FALSE, arrived |-> None, dirs |-> <<>>,
     reversed |-> FALSE]

NumPicks(dt) ==
    IF overshotTarget(node, target, Advance(position, direction, speed, dt))
    THEN Len(validDirections(name, target, direction))
    ELSE 1

EntityUpdate(dt) ==
    /\ cls = "Entity"
    /\ \E pick \in 1..NumPicks(dt) :
         LET r == EntityUpdateResult(dt, pick)
         IN /\ node' = r.node
            /\ target' = r.target
            /\ direction' = r.direction
            /\ position' = r.position
            /\ last' = Last("update", r)
    /\ UNCHANGED <<ctrlVars, graphVars, calls, cls, name, startNode, speed, visible, disablePortal, alive>>

PacManUpdate(dt, key) ==
    /\ cls = "PacMan"
    /\ LET r == PacManUpdateResult(dt, key)
       IN /\ node' = r.node
          /\ target' = r.target
          /\ direction' = r.direction
          /\ position' = r.position
          /\ last' = Last("update", r)
    /\ UNCHANGED <<ctrlVars, graphVars, calls, cls, name, startNode, speed, visible, disablePortal, alive>>

(* PacMan.die *)
Die ==
    /\ cls = "PacMan"
    /\ alive' = FALSE
    /\ direction' = STOP
    /\ last' = Last("die", NoTick)
    /\ UNCHANGED <<ctrlVars, graphVars, calls, cls, name, node, target, startNode, position, speed,
                   visible, disablePortal>>

(* the fields of self that Entity.reset reads or assigns *)
EntitySelf ==
    [node |-> node, target |-> target, startNode |-> startNode, position |-> position,
     direction |-> direction, speed |-> speed, visible |-> visible]

(* faulty variant: the speed is left as it is *)
Entity_resetKeepSpeed(self) ==
    [self EXCEPT !.node = self.startNode,
                 !.target = self.startNode,
                 !.position = heap[self.startNode].position,
                 !.direction = STOP,
                 !.visible = TRUE]

(* Entity.reset: setStartNode(self.startNode), then the three defaults *)
Entity_reset(self) ==
    [self EXCEPT !.node = self.startNode,
                 !.target = self.startNode,
                 !.position = heap[self.startNode].position,
                 !.direction = STOP,
                 !.speed = 100,
                 !.visible = TRUE]

(* Entity.reset and PacMan.reset *)
Reset ==
    /\ cls \in {"Entity", "PacMan"}
    /\ LET e == Entity_reset(EntitySelf)
           b == setBetweenNodes(e.node, e.target, e.position, LEFT)
       IN /\ node' = e.node
          /\ target' = IF cls = "PacMan" THEN b.target ELSE e.target
          /\ position' = IF cls = "PacMan" THEN b.position ELSE e.position
          /\ direction' = IF cls = "PacMan" THEN LEFT ELSE e.direction
          /\ speed' = e.speed
          /\ visible' = e.visible
    /\ alive' = IF cls = "PacMan" THEN TRUE ELSE alive
    /\ last' = Last("reset", NoTick)
    /\ UNCHANGED <<ctrlVars, graphVars, calls, cls, name, startNode, disablePortal>>

-----------------------------------------------------------------------------
(* The level the entities move on: a maze, one optional portal pair and one *)
(* optional access denial, all set through the NodeGroup interface.        *)
maze ==
    << <<"+", ".", "+", "+">>,
       <<"X", "X", "+", "X">> >>

NodeTiles == {<<0, 0>>, <<2, 0>>, <<3, 0>>, <<2, 1>>}
MissingTile == <<1, 1>>
NoPair == <<MissingTile, MissingTile>>
PortalChoices == {NoPair, << <<0, 0>>, <<3, 0>> >>, << <<0, 0>>, <<2, 1>> >>}
DenyChoices == {<<MissingTile, UP>>, << <<2, 0>>, DOWN>>, << <<3, 0>>, LEFT>>}
Level(pair, deny, ename) ==
    deny_access(set_portal_pair(NodeGroup(maze), pair[1], pair[2]),
                deny[1][1], deny[1][2], deny[2], ename)

(* Entity.__init__ / PacMan.__init__ on node n of graph g *)
InitEntity(g, c, ename, n, noPortal) ==
    /\ nodesLUT = g.nodesLUT
    /\ heap = g.heap
    /\ homekey = NoKey
    /\ level = maze
    /\ cls = c
    /\ name = ename
    /\ node = n
    /\ startNode = n
    /\ LET nb == g.heap[n].neighbors[LEFT]
       IN IF c = "PacMan" /\ nb # None
          THEN /\ target = nb
               /\ position = VHalf(VAdd(g.heap[n].position, g.heap[nb].position))
          ELSE /\ target = n
               /\ position = g.heap[n].position
    /\ direction = IF c = "PacMan" THEN LEFT ELSE STOP
    /\ speed = setSpeed(100)
    /\ visible = TRUE
    /\ disablePortal = noPortal
    /\ alive = TRUE
    /\ calls = 0
    /\ last = Last("init", NoTick)
    /\ Idle

ClassNames == {<<"Entity", NoName>>, <<"Entity", BLINKY>>, <<"PacMan", PACMAN>>}

Init ==
    \E pair \in PortalChoices, deny \in DenyChoices, cn \in ClassNames,
       noPortal \in BOOLEAN :
       LET g == Level(pair, deny, cn[2])
       IN \E k \in DOMAIN g.nodesLUT :
            InitEntity(g, cn[1], cn[2], g.nodesLUT[k], noPortal)

Next ==
    \/ \E dt \in DtValues : EntityUpdate(dt)
    \/ \E dt \in DtValues, key \in Cardinals \cup {STOP} : PacManUpdate(dt, key)
    \/ Die
    \/ Reset

Spec == Init /\ [][Next]_vars

-----------------------------------------------------------------------------
(* Level set-up: the NodeGroup of the maze and the calls that edit it;     *)
(* `calls` counts them.                                                    *)
Graph == [nodesLUT |-> nodesLUT, heap |-> heap]

PortalTiles == {<<0, 0>>, <<3, 0>>, <<2, 1>>, MissingTile}
HomeOffsets == {<<-1, 0>>, <<0, 1>>}
ConnectTiles == {<<0, 0>>, <<2, 0>>, MissingTile}

GLast(op, raised) == [op |-> op, raised |-> raised]

NoEntity ==
    /\ cls = "none"
    /\ name = NoName
    /\ node = None
    /\ target = None
    /\ startNode = None
    /\ position = <<0, 0>>
    /\ direction = STOP
    /\ speed = 0
    /\ visible = FALSE
    /\ disablePortal = FALSE
    /\ alive = FALSE

InitGraph ==
    /\ nodesLUT = NodeGroup(maze).nodesLUT
    /\ heap = NodeGroup(maze).heap
    /\ homekey = NoKey
    /\ level = maze
    /\ calls = 0
    /\ last = GLast("NodeGroup", FALSE)
    /\ NoEntity
    /\ Idle

SetPortalPair(pair1, pair2) ==
    /\ calls < MaxGraphCalls
    /\ LET g == set_portal_pair(Graph, pair1, pair2)
       IN /\ nodesLUT' = g.nodesLUT
          /\ heap' = g.heap
    /\ calls' = calls + 1
    /\ last' = GLast("set_portal_pair", FALSE)
    /\ UNCHANGED <<ctrlVars, homekey, level, entityVars>>

CreateHomeNodes(xoffset, yoffset) ==
    /\ calls < MaxGraphCalls
    /\ LET g == create_home_nodes(Graph, xoffset, yoffset)
       IN /\ nodesLUT' = g.nodesLUT
          /\ heap' = g.heap
    /\ homekey' = construct_key(xoffset + 2, yoffset)
    /\ calls' = calls + 1
    /\ last' = GLast("create_home_nodes", FALSE)
    /\ UNCHANGED <<ctrlVars, level, entityVars>>

(* the caller passes the key create_home_nodes returned *)
ConnectHomeNodes(otherkey, d) ==
    /\ calls < MaxGraphCalls
    /\ homekey # NoKey
    /\ LET g == connect_home_nodes(Graph, homekey, otherkey, d)
       IN /\ nodesLUT' = g.nodesLUT
          /\ heap' = g.heap
    /\ calls' = calls + 1
    /\ last' = GLast("connect_home_nodes", connect_home_nodes_raises(Graph, homekey, otherkey))
    /\ UNCHANGED <<ctrlVars, homekey, level, entityVars>>

NextGraph ==
    \/ \E p1 \in PortalTiles, p2 \in PortalTiles : SetPortalPair(p1, p2)
    \/ \E off \in HomeOffsets : CreateHomeNodes(off[1], off[2])
    \/ \E t \in ConnectTiles, d \in Cardinals : ConnectHomeNodes(t, d)

SpecGraph == InitGraph /\ [][NextGraph]_vars

-----------------------------------------------------------------------------
(* The build: a rectangular grid of at most MaxCells cells is read from    *)
(* the maze file and NodeGroup.__init__ builds the graph from it.          *)
Symbols == {"+", ".", "X"}
Shapes == {s \in (1..MaxCells) \X (1..MaxCells) : s[1] * s[2] <= MaxCells}
Grids == UNION {[1..s[1] -> [1..s[2] -> Symbols]] : s \in Shapes}

InitBuild ==
    /\ level \in Grids
    /\ nodesLUT = EmptyGroup.nodesLUT
    /\ heap = EmptyGroup.heap
    /\ homekey = NoKey
    /\ calls = 0
    /\ last = GLast("read_maze_file", FALSE)
    /\ NoEntity
    /\ Idle

NodeGroupInit ==
    /\ last.op = "read_maze_file"
    /\ LET g == NodeGroup(level)
       IN /\ nodesLUT' = g.nodesLUT
          /\ heap' = g.heap
    /\ homekey' = NoKey
    /\ last' = GLast("NodeGroup", FALSE)
    /\ UNCHANGED <<ctrlVars, level, calls, entityVars>>

NextBuild == NodeGroupInit

SpecBuild == InitBuild /\ [][NextBuild]_vars

-----------------------------------------------------------------------------
(* Access edits: the NodeGroup of the maze, with or without home nodes,    *)
(* and the calls that edit the access lists of its nodes.  The calls read  *)
(* only the name of the entity they are given.                             *)
NoHome == <<>>
AccessTiles == {<<2, 0>>, MissingTile}
AccessDirections == {DOWN, LEFT}
AccessNames == {PACMAN, BLINKY}
EntityLists == {<<>>, <<BLINKY, PACMAN>>}

InitAccess ==
    /\ \E off \in {NoHome} \cup HomeOffsets :
          LET g == IF off = NoHome THEN NodeGroup(maze)
                   ELSE create_home_nodes(NodeGroup(maze), off[1], off[2])
          IN /\ nodesLUT = g.nodesLUT
             /\ heap = g.heap
             /\ homekey = IF off = NoHome THEN NoKey
                          ELSE construct_key(off[1] + 2, off[2])
             /\ last = GLast(IF off = NoHome THEN "NodeGroup" ELSE "create_home_nodes",
                             FALSE)
    /\ level = maze
    /\ calls = 0
    /\ NoEntity
    /\ Idle

DenyAccess(col, row, d, ename) ==
    /\ calls < MaxAccessCalls
    /\ LET g == deny_access(Graph, col, row, d, ename)
       IN /\ nodesLUT' = g.nodesLUT
          /\ heap' = g.heap
    /\ calls' = calls + 1
    /\ last' = GLast("deny_access", FALSE)
    /\ UNCHANGED <<ctrlVars, homekey, level, entityVars>>

AllowAccess(col, row, d, ename) ==
    /\ calls < MaxAccessCalls
    /\ LET g == allow_access(Graph, col, row, d, ename)
       IN /\ nodesLUT' = g.nodesLUT
          /\ heap' = g.heap
    /\ calls' = calls + 1
    /\ last' = GLast("allow_access", FALSE)
    /\ UNCHANGED <<ctrlVars, homekey, level, entityVars>>

DenyAccessList(col, row, d, entities) ==
    /\ calls < MaxAccessCalls
    /\ LET g == deny_access_list(Graph, col, row, d, entities)
       IN /\ nodesLUT' = g.nodesLUT
          /\ heap' = g.heap
    /\ calls' = calls + 1
    /\ last' = GLast("deny_access_list", FALSE)
    /\ UNCHANGED <<ctrlVars, homekey, level, entityVars>>

AllowAccessList(col, row, d, entities) ==
    /\ calls < MaxAccessCalls
    /\ LET g == allow_access_list(Graph, col, row, d, entities)
       IN /\ nodesLUT' = g.nodesLUT
          /\ heap' = g.heap
    /\ calls' = calls + 1
    /\ last' = GLast("allow_access_list", FALSE)
    /\ UNCHANGED <<ctrlVars, homekey, level, entityVars>>

DenyHomeAccess(ename) ==
    /\ calls < MaxAccessCalls
    /\ LET g == deny_home_access(Graph, homekey, ename)
       IN /\ nodesLUT' = g.nodesLUT
          /\ heap' = g.heap
    /\ calls' = calls + 1
    /\ last' = GLast("deny_home_access", home_access_raises(Graph, homekey))
    /\ UNCHANGED <<ctrlVars, homekey, level, entityVars>>

AllowHomeAccess(ename) ==
    /\ calls < MaxAccessCalls
    /\ LET g == allow_home_access(Graph, homekey, ename)
       IN /\ nodesLUT' = g.nodesLUT
          /\ heap' = g.heap
    /\ calls' = calls + 1
    /\ last' = GLast("allow_home_access", home_access_raises(Graph, homekey))
    /\ UNCHANGED <<ctrlVars, homekey, level, entityVars>>

DenyHomeAccessList(entities) ==
    /\ calls < MaxAccessCalls
    /\ LET g == deny_home_access_list(Graph, homekey, entities)
       IN /\ nodesLUT' = g.nodesLUT
          /\ heap' = g.heap
    /\ calls' = calls + 1
    /\ last' = GLast("deny_home_access_list", home_access_list_raises(Graph, homekey, entities))
    /\ UNCHANGED <<ctrlVars, homekey, level, entityVars>>

AllowHomeAccessList(entities) ==
    /\ calls < MaxAccessCalls
    /\ LET g == allow_home_access_list(Graph, homekey, entities)
       IN /\ nodesLUT' = g.nodesLUT
          /\ heap' = g.heap
    /\ calls' = calls + 1
    /\ last' = GLast("allow_home_access_list", home_access_list_raises(Graph, homekey, entities))
    /\ UNCHANGED <<ctrlVars, homekey, level, entityVars>>

NextAccess ==
    \/ \E t \in AccessTiles, d \in AccessDirections, e \in AccessNames :
          DenyAccess(t[1], t[2], d, e)
    \/ \E t \in AccessTiles, d \in AccessDirections, e \in AccessNames :
          AllowAccess(t[1], t[2], d, e)
    \/ \E t \in AccessTiles, d \in AccessDirections, es \in EntityLists :
          DenyAccessList(t[1], t[2], d, es)
    \/ \E t \in AccessTiles, d \in AccessDirections, es \in EntityLists :
          AllowAccessList(t[1], t[2], d, es)
    \/ \E e \in AccessNames : DenyHomeAccess(e)
    \/ \E e \in AccessNames : AllowHomeAccess(e)
    \/ \E es \in EntityLists : DenyHomeAccessList(es)
    \/ \E es \in EntityLists : AllowHomeAccessList(es)

SpecAccess == InitAccess /\ [][NextAccess]_vars

-----------------------------------------------------------------------------
(* pauser.py: the Pause object.  Pause times and dt are whole time units;   *)
(* NoTime is None as a pause time, NoFunc is None as a callback.            *)
NoTime == -1
NoFunc == "None"

Pause(paused) ==
    [paused |-> paused, timer |-> 0, pauseTime |-> NoTime, func |-> NoFunc]

Pause_updateNoReset(self, dt) ==
    IF self.pauseTime # NoTime
    THEN LET t == self.timer + dt
         IN IF t >= self.pauseTime
            THEN [self |-> [self EXCEPT !.timer = 0, !.paused = FALSE],
                  returned |-> self.func]
            ELSE [self |-> [self EXCEPT !.timer = t], returned |-> NoFunc]
    ELSE [self |-> self, returned |-> NoFunc]

Pause_updateKeepTimer(self, dt) ==
    IF self.pauseTime # NoTime
    THEN LET t == self.timer + dt
         IN IF t >= self.pauseTime
            THEN [self |-> [self EXCEPT !.timer = t, !.paused = FALSE,
                                        !.pauseTime = NoTime],
                  returned |-> self.func]
            ELSE [self |-> [self EXCEPT !.timer = t], returned |-> NoFunc]
    ELSE [self |-> self, returned |-> NoFunc]

(* update(dt): the Pause object after the call and the value returned *)
Pause_update(self, dt) ==
    IF self.pauseTime # NoTime
    THEN LET t == self.timer + dt
         IN IF t >= self.pauseTime
            THEN [self |-> [self EXCEPT !.timer = 0, !.paused = FALSE,
                                        !.pauseTime = NoTime],
                  returned |-> self.func]
            ELSE [self |-> [self EXCEPT !.timer = t], returned |-> NoFunc]
    ELSE [self |-> self, returned |-> NoFunc]

flip(self) == [self EXCEPT !.paused = ~self.paused]

(* faulty variant: a pending callback is not replaced *)
setPauseKeepPending(self, playerPaused, pauseTime, func) ==
    flip([self EXCEPT !.timer = 0,
                      !.func = IF self.pauseTime # NoTime THEN @ ELSE func,
                      !.pauseTime = pauseTime])

setPauseKeepTimer(self, playerPaused, pauseTime, func) ==
    flip([self EXCEPT !.func = func, !.pauseTime = pauseTime])

setPause(self, playerPaused, pauseTime, func) ==
    flip([self EXCEPT !.timer = 0, !.func = func, !.pauseTime = pauseTime])

(* Inputs of the Pause calls *)
MaxPauseTime == 3
MaxPauseDt == 2
PauseTimes == {NoTime} \cup (0..MaxPauseTime)
PauseDts == 0..MaxPauseDt
PauseFuncs == {NoFunc, "next_level", "reset_level"}

(* The last Pause call, its arguments and result; since the last setPause:  *)
(* the dt accumulated up to the first returned callback, and the number of  *)
(* ticks that returned one (counted up to 2); discarded is the callback     *)
(* that was still pending when the last setPause replaced it.               *)
PLast(op, dt, returned, playerPaused, pauseTime, func, elapsed, fired, discarded) ==
    [op |-> op, dt |-> dt, returned |-> returned, playerPaused |-> playerPaused,
     pauseTime |-> pauseTime, func |-> func, elapsed |-> elapsed, fired |-> fired,
     discarded |-> discarded]

InitPause ==
    /\ \E p \in BOOLEAN : pause = Pause(p)
    /\ nodesLUT = EmptyGroup.nodesLUT
    /\ heap = EmptyGroup.heap
    /\ homekey = NoKey
    /\ level = <<>>
    /\ NoEntity
    /\ game = NoGame
    /\ bodies = NoBodies
    /\ calls = 0
    /\ last = PLast("Pause", 0, NoFunc, FALSE, NoTime, NoFunc, 0, 0, NoFunc)

PauseUpdate(dt) ==
    /\ LET r == Pause_update(pause, dt)
           firing == last.pauseTime # NoTime /\ last.fired = 0
                     /\ last.elapsed + dt >= last.pauseTime
       IN /\ pause' = r.self
          /\ last' = [last EXCEPT !.op = "update", !.dt = dt,
                                  !.returned = r.returned,
                                  !.elapsed = IF last.fired = 0 /\ last.pauseTime # NoTime
                                              THEN @ + dt ELSE @,
                                  !.fired = IF firing /\ @ < 2 THEN @ + 1 ELSE @]
    /\ UNCHANGED <<graphVars, entityVars, calls, game, bodies>>

SetPause(playerPaused, pauseTime, func) ==
    /\ pause' = setPause(pause, playerPaused, pauseTime, func)
    /\ last' = PLast("setPause", 0, NoFunc, playerPaused, pauseTime, func, 0, 0,
                     IF pause.pauseTime # NoTime THEN pause.func ELSE NoFunc)
    /\ UNCHANGED <<graphVars, entityVars, calls, game, bodies>>

Flip ==
    /\ pause' = flip(pause)
    /\ last' = [last EXCEPT !.op = "flip"]
    /\ UNCHANGED <<graphVars, entityVars, calls, game, bodies>>

NextPause ==
    \/ \E dt \in PauseDts : PauseUpdate(dt)
    \/ \E pp \in BOOLEAN, pt \in PauseTimes, f \in PauseFuncs : SetPause(pp, pt, f)
    \/ Flip

SpecPause == InitPause /\ [][NextPause]_vars

-----------------------------------------------------------------------------
(* pacman.py: the circular collision test between two entities, each with   *)
(* a position and a collideRadius.                                           *)
collideCheckStrict(self, other) ==
    LET d == VSub(self.position, other.position)
        dSquared == magnitudeSquared(d)
        rSquared == (self.collideRadius + other.collideRadius)
                    * (self.collideRadius + other.collideRadius)
    IN dSquared < rSquared

collideCheckOwnRadius(self, other) ==
    LET d == VSub(self.position, other.position)
        dSquared == magnitudeSquared(d)
        rSquared == (self.collideRadius + self.collideRadius)
                    * (self.collideRadius + self.collideRadius)
    IN dSquared <= rSquared

collideCheck(self, other) ==
    LET d == VSub(self.position, other.position)
        dSquared == magnitudeSquared(d)
        rSquared == (self.collideRadius + other.collideRadius)
                    * (self.collideRadius + other.collideRadius)
    IN IF dSquared <= rSquared THEN TRUE ELSE FALSE

(* Inputs of the collision test *)
MaxCoord == 4
MaxRadius == 3
CollidePositions == (0..MaxCoord) \X (0..MaxCoord)
CollideRadii == 0..MaxRadius
Bodies == [position : CollidePositions, collideRadius : CollideRadii]

(* the last collideCheck call: receiver, argument and value returned *)
CLast(op, self, other, returned) ==
    [op |-> op, self |-> self, other |-> other, returned |-> returned]

InitCollide ==
    /\ \E a \in Bodies, b \in Bodies : bodies = <<a, b>>
    /\ nodesLUT = EmptyGroup.nodesLUT
    /\ heap = EmptyGroup.heap
    /\ homekey = NoKey
    /\ level = <<>>
    /\ NoEntity
    /\ pause = NoPause
    /\ game = NoGame
    /\ calls = 0
    /\ last = CLast("init", 0, 0, FALSE)

(* bodies[i].collideCheck(bodies[j]) *)
CollideCheck(i, j) ==
    /\ last' = CLast("collideCheck", i, j, collideCheck(bodies[i], bodies[j]))
    /\ UNCHANGED <<graphVars, entityVars, calls, pause, game, bodies>>

NextCollide ==
    \E i \in 1..2 : CollideCheck(i, 3 - i)

SpecCollide == InitCollide /\ [][NextCollide]_vars

-----------------------------------------------------------------------------
(* entity.py: Entity.goalDirection, the direction method of an entity that  *)
(* heads for a goal point.  n is self.node, dirs the list it is given.      *)
goalDistances(n, dirs, goal) ==
    [i \in DOMAIN dirs |->
        magnitudeSquared(VSub(VAdd(heap[n].position,
                                   VScale(directions(dirs[i]), TILEWIDTH)), goal))]

(* faulty variant: the last of the nearest candidates is taken *)
goalDirectionLastMin(n, dirs, goal) ==
    LET distances == goalDistances(n, dirs, goal)
        index == CHOOSE i \in DOMAIN dirs :
                    /\ \A j \in DOMAIN dirs : distances[i] <= distances[j]
                    /\ \A j \in DOMAIN dirs : j > i => distances[j] # distances[i]
    IN dirs[index]

goalDirection(n, dirs, goal) ==
    LET distances == goalDistances(n, dirs, goal)
        index == CHOOSE i \in DOMAIN dirs :
                    /\ \A j \in DOMAIN dirs : distances[i] <= distances[j]
                    /\ \A j \in DOMAIN dirs : j < i => distances[j] # distances[i]
    IN dirs[index]

(* Goal points: the tile corners of a square of tiles *)
MaxGoalTile == 3
GoalPoints == {<<x * TILEWIDTH, y * TILEHEIGHT>> : x \in 0..MaxGoalTile, y \in 0..MaxGoalTile}

(* the last goalDirection call: self.node, the list given, the goal and the *)
(* direction returned                                                        *)
GoalLast(n, dirs, goal, returned) ==
    [op |-> "goalDirection", node |-> n, directions |-> dirs, goal |-> goal,
     returned |-> returned]

(* self.goalDirection(self.validDirections()) with self.goal = goal *)
GoalDirection(goal) ==
    /\ cls = "Entity"
    /\ LET dirs == validDirections(name, node, direction)
       IN last' = GoalLast(node, dirs, goal, goalDirection(node, dirs, goal))
    /\ UNCHANGED <<ctrlVars, graphVars, entityVars, calls>>

NextGoal ==
    \/ \E dt \in DtValues : EntityUpdate(dt)
    \/ Reset
    \/ \E goal \in GoalPoints : GoalDirection(goal)

InitGoal ==
    \E pair \in PortalChoices, deny \in DenyChoices, ename \in {NoName, BLINKY},
       noPortal \in BOOLEAN :
       LET g == Level(pair, deny, ename)
       IN \E k \in DOMAIN g.nodesLUT :
            InitEntity(g, "Entity", ename, g.nodesLUT[k], noPortal)

SpecGoal == InitGoal /\ [][NextGoal]_vars

-----------------------------------------------------------------------------
(* run.py: GameController, one frame per update().  Of the controller the   *)
(* model keeps the pause, the lives, whether a fruit exists and whether     *)
(* Pac-Man is alive; a controller value c is the record of these.  run.py   *)
(* calls the pause through set_pause(player_paused, pause_time, func),      *)
(* which is Pause.setPause of pauser.py under its other spelling.           *)
Controller == [pause |-> pause, lives |-> game.lives, fruit |-> game.fruit,
               alive |-> game.alive]

(* pellets = "empty": the last pellet was eaten in this frame *)
check_pellet_events(c, pellets) ==
    IF pellets = "empty"
    THEN [c EXCEPT !.pause = setPause(@, FALSE, 3, "next_level")]
    ELSE c

(* faulty variant: a life is taken for every colliding ghost *)
RECURSIVE check_ghost_eventsPerGhost(_, _)
check_ghost_eventsPerGhost(c, hits) ==
    IF hits = <<>> THEN c
    ELSE LET c1 == IF Head(hits) = "FREIGHT"
                   THEN [c EXCEPT !.pause = setPause(@, FALSE, 1, "show_entities")]
                   ELSE [c EXCEPT !.lives = @ - 1,
                                  !.alive = FALSE,
                                  !.pause = setPause(@, FALSE, 3,
                                                     IF c.lives - 1 <= 0
                                                     THEN "restart_game"
                                                     ELSE "reset_level")]
         IN check_ghost_eventsPerGhost(c1, Tail(hits))

(* hits: the modes of the ghosts Pac-Man collides with, in ghost order *)
RECURSIVE check_ghost_events(_, _)
check_ghost_events(c, hits) ==
    IF hits = <<>> THEN c
    ELSE LET c1 == IF Head(hits) = "FREIGHT"
                   THEN [c EXCEPT !.pause = setPause(@, FALSE, 1, "show_entities")]
                   ELSE IF c.alive
                        THEN [c EXCEPT !.lives = @ - 1,
                                       !.alive = FALSE,
                                       !.pause = setPause(@, FALSE, 3,
                                                          IF c.lives - 1 <= 0
                                                          THEN "restart_game"
                                                          ELSE "reset_level")]
                        ELSE c
         IN check_ghost_events(c1, Tail(hits))

(* fruitEvent: "spawn" when numEaten is 50 or 140, "gone" when the fruit is *)
(* eaten or destroyed                                                        *)
check_fruit_events(c, fruitEvent) ==
    CASE fruitEvent = "spawn" /\ ~c.fruit -> [c EXCEPT !.fruit = TRUE]
      [] fruitEvent = "gone" /\ c.fruit -> [c EXCEPT !.fruit = FALSE]
      [] OTHER -> c

(* the callback returned by Pause.update, called by the controller *)
afterPauseMethod(c, func) ==
    CASE func = "next_level" ->
             [c EXCEPT !.pause.paused = TRUE, !.alive = TRUE]
      [] func = "restart_game" ->
             [c EXCEPT !.lives = 5, !.pause.paused = TRUE, !.fruit = FALSE,
                       !.alive = TRUE]
      [] func = "reset_level" ->
             [c EXCEPT !.pause.paused = TRUE, !.alive = TRUE, !.fruit = FALSE]
      [] OTHER -> c

(* check_events: the space key *)
check_events(c, space) ==
    IF space /\ c.alive
    THEN [c EXCEPT !.pause = setPause(@, TRUE, NoTime, NoFunc)]
    ELSE c

(* faulty variant: Pac-Man is updated in every frame *)
pacmanUpdatedAlways(isAlive, isPaused) == TRUE

(* lines 218-222: whether self.pacman.update is called *)
pacmanUpdated(isAlive, isPaused) ==
    IF isAlive THEN ~isPaused ELSE TRUE

(* GameController.update: the controller after the frame and what the frame *)
(* ticked                                                                    *)
GameController_update(c, dt, pellets, hits, fruitEvent, space) ==
    LET paused0 == c.pause.paused
        c1 == IF ~paused0
              THEN check_fruit_events(
                       check_ghost_events(check_pellet_events(c, pellets), hits),
                       fruitEvent)
              ELSE c
        u == Pause_update(c1.pause, dt)
        c2 == afterPauseMethod([c1 EXCEPT !.pause = u.self], u.returned)
    IN [c |-> check_events(c2, space),
        frame |-> [op |-> "update", paused |-> paused0, alive |-> c.alive,
                   fruit |-> c.fruit,
                   ghosts |-> ~paused0,
                   fruitTicked |-> ~paused0 /\ c.fruit,
                   pacman |-> pacmanUpdated(c1.alive, c1.pause.paused),
                   pauseTimer |-> TRUE,
                   afterPause |-> u.returned,
                   lastPellet |-> ~paused0 /\ pellets = "empty",
                   hits |-> IF paused0 THEN <<>> ELSE hits,
                   died |-> c.alive /\ ~c1.alive,
                   livesLost |-> c.lives - c1.lives]]

(* Inputs of a frame; lives can fall without limit when level changes and  *)
(* deaths alternate, so frames are kept to lives >= -MaxOverdraw.           *)
MaxFrameDt == 2
MaxGhostHits == 2
MaxOverdraw == 0
RECURSIVE HitLists(_)
HitLists(k) ==
    IF k = 0 THEN {<<>>}
    ELSE HitLists(k - 1)
         \cup {Append(h, m) : h \in HitLists(k - 1), m \in {"FREIGHT", "CHASE"}}

InitGame ==
    /\ pause = Pause(TRUE)
    /\ game = [lives |-> 5, fruit |-> FALSE, alive |-> TRUE]
    /\ nodesLUT = EmptyGroup.nodesLUT
    /\ heap = EmptyGroup.heap
    /\ homekey = NoKey
    /\ level = <<>>
    /\ NoEntity
    /\ bodies = NoBodies
    /\ calls = 0
    /\ last = [op |-> "start_game"]

Update(dt, pellets, hits, fruitEvent, space) ==
    /\ LET r == GameController_update(Controller, dt, pellets, hits, fruitEvent, space)
       IN /\ r.c.lives >= -MaxOverdraw
          /\ pause' = r.c.pause
          /\ game' = [lives |-> r.c.lives, fruit |-> r.c.fruit, alive |-> r.c.alive]
          /\ last' = r.frame
    /\ UNCHANGED <<graphVars, entityVars, calls, bodies>>

NextGame ==
    \E dt \in 1..MaxFrameDt, pellets \in {"some", "empty"},
       hits \in HitLists(MaxGhostHits), fruitEvent \in {"none", "spawn", "gone"},
       space \in BOOLEAN :
       Update(dt, pellets, hits, fruitEvent, space)

SpecGame == InitGame /\ [][NextGame]_vars

-----------------------------------------------------------------------------
(* Ticks that keep an entity going: every frame calls update with dt > 0    *)
(* and the player asks for no reversal.                                      *)
NextArrive ==
    \/ \E dt \in DtValues \ {0} : EntityUpdate(dt)
    \/ \E dt \in DtValues \ {0}, key \in Cardinals \cup {STOP} :
          /\ ~oppositeDirection(key, direction)
          /\ PacManUpdate(dt, key)

SpecArrive == Init /\ [][NextArrive]_vars /\ WF_vars(NextArrive)

-----------------------------------------------------------------------------
(* Properties of entity movement (specification Spec)                      *)

HasEntity == cls \in {"Entity", "PacMan"}
Ticked == HasEntity /\ last.op = "update"
EntityNames == {NoName, PACMAN, BLINKY, PINKY, INKY, CLYDE, FRUIT}
AccessSet(n, d) == {heap[n].access[d][i] : i \in DOMAIN heap[n].access[d]}

(* traversal legality as the three conditions of the access-control design *)
Legal(selfname, n, d) ==
    /\ d # STOP
    /\ selfname \in AccessSet(n, d)
    /\ heap[n].neighbors[d] # None

Dot(a, b) == a[1] * b[1] + a[2] * b[2]
Cross(a, b) == a[1] * b[2] - a[2] * b[1]
OnSegment(p, a, b) ==
    /\ Cross(VSub(p, a), VSub(b, a)) = 0
    /\ Dot(VSub(p, a), VSub(b, a)) >= 0
    /\ Dot(VSub(p, a), VSub(b, a)) <= Dot(VSub(b, a), VSub(b, a))

(* C1: whenever target is not node, position lies on the straight segment *)
(* from node.position to target.position, endpoints included.              *)
C1_PositionOnSegment ==
    (HasEntity /\ target # node)
        => OnSegment(position, heap[node].position, heap[target].position)

(* C1 witness: after a tick without arrival the entity is strictly inside  *)
(* the edge it travels.                                                    *)
C1_Witness ==
    /\ Ticked /\ ~last.overshot /\ target # node
    /\ position # heap[node].position
    /\ position # heap[target].position
    /\ OnSegment(position, heap[node].position, heap[target].position)

(* C2 as claimed: in every state, target = node implies direction = STOP.  *)
C2_StationaryMeansStop ==
    (HasEntity /\ target = node) => direction = STOP

(* C2 as amended: in every state reached by a PacMan.update tick,          *)
(* target = node implies direction = STOP.                                 *)
C2_PacManStopsWhenBlocked ==
    (cls = "PacMan" /\ last.op = "update" /\ target = node) => direction = STOP

(* C2 witness: a Pac-Man tick arrived at a node with no way on and stopped *)
C2_Witness ==
    /\ cls = "PacMan" /\ last.op = "update" /\ last.overshot
    /\ target = node /\ direction = STOP /\ last.key # STOP

(* C3: validDirection(d) is true exactly when d is not STOP, the entity's  *)
(* name is in node.access[d] and node.neighbors[d] is not None, for every  *)
(* node, every entity name and every d among the cardinals and STOP.       *)
C3_ValidDirectionIffLegal ==
    HasEntity =>
        \A n \in DOMAIN heap, nm \in EntityNames, d \in Cardinals \cup {STOP} :
            validDirection(nm, n, d) <=> Legal(nm, n, d)

(* C3 witness: at the entity's node, after a tick, one direction is legal, *)
(* one fails only on access and one fails only on the missing neighbor.    *)
C3_Witness ==
    /\ Ticked /\ target = node
    /\ \E d \in Cardinals : validDirection(name, node, d)
    /\ \E d \in Cardinals : /\ heap[node].neighbors[d] # None
                            /\ name \notin AccessSet(node, d)
                            /\ ~validDirection(name, node, d)
    /\ \E d \in Cardinals : /\ heap[node].neighbors[d] = None
                            /\ name \in AccessSet(node, d)
                            /\ ~validDirection(name, node, d)

(* C4: validDirections() is never empty, and when no cardinal direction is *)
(* legal it is exactly the one-element list of the reversed direction.     *)
C4_ValidDirectionsNeverEmpty ==
    HasEntity =>
        \A n \in DOMAIN heap, nm \in EntityNames, dir \in Cardinals \cup {STOP} :
            LET r == validDirections(nm, n, dir)
            IN /\ Len(r) >= 1
               /\ (\A d \in Cardinals : ~Legal(nm, n, d)) => r = <<dir * (-1)>>

(* C4 witness: a moving entity arrived where nothing is legal for it and   *)
(* was handed the reverse of its direction as the only choice.             *)
C4_Witness ==
    /\ cls = "Entity" /\ name # NoName /\ last.op = "update" /\ last.overshot
    /\ \A d \in Cardinals : ~Legal(name, last.arrived, d)
    /\ Len(last.dirs) = 1
    /\ last.dirs[1] # STOP

(* C5: a tick that overshoots a target with a PORTAL partner, portals not  *)
(* disabled, ends with node = partner, position = partner.position and the *)
(* target resolved from the partner's neighbors.                           *)
C5_PortalHop ==
    (Ticked /\ last.overshot /\ ~disablePortal
        /\ heap[last.arrived].neighbors[PORTAL] # None)
    => LET partner == heap[last.arrived].neighbors[PORTAL]
       IN /\ node = partner
          /\ position = heap[partner].position
          /\ \/ target = partner
             \/ /\ direction \in Cardinals
                /\ target = heap[partner].neighbors[direction]
                /\ name \in AccessSet(partner, direction)

(* C5 witness: the entity arrived at one end of a portal pair, stands at   *)
(* the other end and heads for a neighbor of that other end.               *)
C5_Witness ==
    /\ Ticked /\ last.overshot /\ ~disablePortal
    /\ heap[last.arrived].neighbors[PORTAL] # None
    /\ node = heap[last.arrived].neighbors[PORTAL]
    /\ node # last.arrived
    /\ target # node
    /\ target = heap[node].neighbors[direction]
    /\ heap[last.arrived].neighbors[direction] # target

(* C6: on a Pac-Man tick without overshoot, a requested direction that is  *)
(* not STOP and is the negative of the current one swaps node and target   *)
(* and negates the direction, the position being only advanced; any other  *)
(* request leaves node, target and direction alone; with direction STOP    *)
(* there is never a reversal.                                              *)
C6_ReversalStep ==
    (cls = "PacMan" /\ last'.op = "update" /\ ~last'.overshot)
    => /\ IF last'.key # STOP /\ last'.key = direction * (-1)
          THEN /\ node' = target
               /\ target' = node
               /\ direction' = direction * (-1)
               /\ last'.reversed
          ELSE /\ node' = node
               /\ target' = target
               /\ direction' = direction
               /\ ~last'.reversed
       /\ \E dt \in DtValues : position' = Advance(position, direction, speed, dt)
       /\ direction = STOP => (node' = node /\ target' = target /\ direction' = STOP)

(* C6: every step of the system is a step as described above *)
C6_Reversal == [][C6_ReversalStep]_vars

(* C6 witness: Pac-Man has just reversed in the middle of an edge.         *)
C6_Witness ==
    /\ cls = "PacMan" /\ last.op = "update" /\ ~last.overshot /\ last.reversed
    /\ last.key = direction
    /\ target # node
    /\ position # heap[node].position
    /\ position # heap[target].position

(* C7 as claimed: on an overshoot tick the selected direction is committed *)
(* when it resolves to a target other than the (post-portal) node;         *)
(* otherwise the previous direction is kept and the target is resolved in  *)
(* the previous direction.                                                 *)
C7_CommitOrKeepStep ==
    (HasEntity /\ last'.op = "update" /\ last'.overshot)
    => LET t1 == getNewTarget(name, node', last'.key)
       IN IF t1 # node'
          THEN direction' = last'.key /\ target' = t1
          ELSE direction' = direction /\ target' = getNewTarget(name, node', direction)

(* C7 as claimed: every overshoot tick commits the selected direction or  *)
(* keeps the previous one                                                  *)
C7_CommitOrKeep == [][C7_CommitOrKeepStep]_vars

(* C7 as amended: as claimed, except that Pac-Man, when the target         *)
(* resolved in the previous direction is again the node, takes direction   *)
(* STOP instead of keeping the previous direction.                         *)
C7_CommitKeepOrStopStep ==
    (HasEntity /\ last'.op = "update" /\ last'.overshot)
    => LET t1 == getNewTarget(name, node', last'.key)
           t2 == getNewTarget(name, node', direction)
       IN IF t1 # node'
          THEN direction' = last'.key /\ target' = t1
          ELSE /\ target' = t2
               /\ direction' = IF cls = "PacMan" /\ t2 = node' THEN STOP ELSE direction
               /\ Legal(name, node', direction)
                    => (direction' = direction /\ target' = heap[node'].neighbors[direction])

(* C7 as amended: every overshoot tick commits the selected direction,    *)
(* keeps the previous one, or (Pac-Man, blocked both ways) stops           *)
C7_CommitKeepOrStop == [][C7_CommitKeepOrStopStep]_vars

(* C7 witness: the entity arrived, the direction selected for it is not    *)
(* legal at the node, and it keeps moving in its previous direction.       *)
C7_Witness ==
    /\ Ticked /\ last.overshot
    /\ last.key # STOP /\ last.key # direction
    /\ ~Legal(name, node, last.key)
    /\ direction \in Cardinals
    /\ target # node
    /\ target = heap[node].neighbors[direction]

(* C8: for d among the cardinals and STOP, getNewTarget(d) does not raise, *)
(* is never None, is node.neighbors[d] when d is legal and the node itself *)
(* otherwise.                                                              *)
C8_GetNewTargetTotal ==
    HasEntity =>
        \A n \in DOMAIN heap, nm \in EntityNames, d \in Cardinals \cup {STOP} :
            /\ ~validDirectionRaises(n, d)
            /\ getNewTarget(nm, n, d) # None
            /\ getNewTarget(nm, n, d) \in DOMAIN heap
            /\ Legal(nm, n, d) => getNewTarget(nm, n, d) = heap[n].neighbors[d]
            /\ ~Legal(nm, n, d) => getNewTarget(nm, n, d) = n

(* C8 witness: a tick resolved a target at a node where some direction     *)
(* leads on, some is denied to the entity and some has no neighbor.        *)
C8_Witness ==
    /\ Ticked /\ last.overshot
    /\ \E d \in Cardinals : getNewTarget(name, node, d) = target /\ target # node
    /\ \E d \in Cardinals : /\ heap[node].neighbors[d] # None
                            /\ getNewTarget(name, node, d) = node
    /\ \E d \in Cardinals : /\ heap[node].neighbors[d] = None
                            /\ getNewTarget(name, node, d) = node
    /\ getNewTarget(name, node, STOP) = node

(* C9: overshotTarget() is true exactly when the squared distance from     *)
(* node to position is at least the squared distance from node to target,  *)
(* on the entity's position and on every position a tick can advance it    *)
(* to; it is true when target is node and false when target is None.       *)
Dist2(a, b) == (a[1] - b[1]) * (a[1] - b[1]) + (a[2] - b[2]) * (a[2] - b[2])

C9_OvershotIffReached ==
    HasEntity =>
        /\ \A dt \in DtValues :
             LET p == Advance(position, direction, speed, dt)
             IN /\ overshotTarget(node, target, p)
                     <=> Dist2(heap[node].position, p)
                             >= Dist2(heap[node].position, heap[target].position)
                /\ overshotTarget(node, node, p)
                /\ ~overshotTarget(node, None, p)
        /\ target = node => overshotTarget(node, target, position)

(* C9 witness: after a tick the entity is inside an edge and one of the    *)
(* possible next advances puts it exactly on the target, which counts as   *)
(* overshoot.                                                              *)
C9_Witness ==
    /\ Ticked /\ target # node /\ position # heap[node].position
    /\ \E dt \in DtValues :
         /\ dt > 0
         /\ Advance(position, direction, speed, dt) = heap[target].position
         /\ overshotTarget(node, target, Advance(position, direction, speed, dt))

-----------------------------------------------------------------------------
(* Properties of the maze graph (specification SpecGraph)                  *)

Opposite(d) == d * (-1)

(* C10: the cardinal neighbor topology is symmetric: for every node A in   *)
(* nodesLUT and cardinal d, A.neighbors[d] = B implies                     *)
(* B.neighbors[opposite(d)] = A.                                           *)
C10_NeighborSymmetry ==
    \A k \in DOMAIN nodesLUT, d \in Cardinals :
        LET A == nodesLUT[k]
            B == heap[A].neighbors[d]
        IN B # None => heap[B].neighbors[Opposite(d)] = A

TileKey(t) == <<t[1] * TILEWIDTH, t[2] * TILEHEIGHT>>
HasNode(t) == TileKey(t) \in DOMAIN nodesLUT
NodeOf(t) == nodesLUT[TileKey(t)]
AllDirections == Cardinals \cup {PORTAL}

(* C13: set_portal_pair(p1, p2) on two tiles that both hold nodes sets     *)
(* each node's PORTAL neighbor to the other and changes no cardinal        *)
(* neighbor and no access list of any node; when either tile holds no      *)
(* node the call changes nothing (the call has no raising path).           *)
C13_PortalPairFrame ==
    \A p1 \in PortalTiles, p2 \in PortalTiles :
        LET g == set_portal_pair(Graph, p1, p2)
        IN IF HasNode(p1) /\ HasNode(p2)
           THEN /\ g.heap[NodeOf(p1)].neighbors[PORTAL] = NodeOf(p2)
                /\ g.heap[NodeOf(p2)].neighbors[PORTAL] = NodeOf(p1)
                /\ g.nodesLUT = nodesLUT
                /\ DOMAIN g.heap = DOMAIN heap
                /\ \A n \in DOMAIN heap :
                      /\ g.heap[n].access = heap[n].access
                      /\ g.heap[n].position = heap[n].position
                      /\ \A d \in Cardinals : g.heap[n].neighbors[d] = heap[n].neighbors[d]
           ELSE g = Graph

(* C13 witness: set_portal_pair has just paired two distinct nodes that    *)
(* keep their cardinal neighbors.                                          *)
C13_Witness ==
    /\ last.op = "set_portal_pair"
    /\ \E p1 \in PortalTiles, p2 \in PortalTiles :
          /\ HasNode(p1) /\ HasNode(p2) /\ NodeOf(p1) # NodeOf(p2)
          /\ heap[NodeOf(p1)].neighbors[PORTAL] = NodeOf(p2)
          /\ heap[NodeOf(p2)].neighbors[PORTAL] = NodeOf(p1)
          /\ \E d \in Cardinals : heap[NodeOf(p1)].neighbors[d] # None
          /\ \E d \in Cardinals : heap[NodeOf(p2)].neighbors[d] # None

(* C14: portal links are bidirectional in every reachable graph state:     *)
(* for all nodes A and B, A.neighbors[PORTAL] = B implies                  *)
(* B.neighbors[PORTAL] = A.                                                *)
C14_PortalSymmetry ==
    \A k \in DOMAIN nodesLUT :
        LET A == nodesLUT[k]
            B == heap[A].neighbors[PORTAL]
        IN B # None => heap[B].neighbors[PORTAL] = A

(* C15: connect_home_nodes(homekey, otherkey, d), both keys present, sets  *)
(* home.neighbors[d] to the external node and                              *)
(* external.neighbors[opposite(d)] to the home node and changes no other   *)
(* neighbor entry of any node.                                             *)
C15_ConnectHomeFrame ==
    homekey # NoKey =>
        \A t \in ConnectTiles, d \in Cardinals :
            ~connect_home_nodes_raises(Graph, homekey, t) =>
                LET g == connect_home_nodes(Graph, homekey, t, d)
                    home == nodesLUT[homekey]
                    ext == NodeOf(t)
                IN /\ g.heap[home].neighbors[d] = ext
                   /\ g.heap[ext].neighbors[Opposite(d)] = home
                   /\ g.nodesLUT = nodesLUT
                   /\ DOMAIN g.heap = DOMAIN heap
                   /\ \A n \in DOMAIN heap, dd \in AllDirections :
                         (<<n, dd>> # <<home, d>> /\ <<n, dd>> # <<ext, Opposite(d)>>)
                             => g.heap[n].neighbors[dd] = heap[n].neighbors[dd]

(* C15 witness: connect_home_nodes has just linked the home node and a     *)
(* node of the maze in both directions.                                    *)
C15_Witness ==
    /\ last.op = "connect_home_nodes" /\ ~last.raised
    /\ homekey # NoKey
    /\ \E t \in ConnectTiles, d \in Cardinals :
          /\ HasNode(t)
          /\ NodeOf(t) # nodesLUT[homekey]
          /\ heap[nodesLUT[homekey]].neighbors[d] = NodeOf(t)
          /\ heap[NodeOf(t)].neighbors[Opposite(d)] = nodesLUT[homekey]

(* C17: every NodeGroup operation that resolves a node from a coordinate   *)
(* tolerates a lookup miss: it does not raise and leaves the graph as it   *)
(* is.  This is stated for set_portal_pair, deny_access / allow_access and *)
(* their list variants, connect_home_nodes (unknown otherkey or homekey),  *)
(* and the home access calls (also when no home node was created).         *)
C17_LookupMissTolerated ==
    /\ ~last.raised
    /\ \A p1 \in PortalTiles, p2 \in PortalTiles :
          (~HasNode(p1) \/ ~HasNode(p2)) => set_portal_pair(Graph, p1, p2) = Graph
    /\ \A d \in Cardinals, e \in AccessNames, es \in EntityLists :
          ~HasNode(MissingTile) =>
              /\ deny_access(Graph, MissingTile[1], MissingTile[2], d, e) = Graph
              /\ allow_access(Graph, MissingTile[1], MissingTile[2], d, e) = Graph
              /\ deny_access_list(Graph, MissingTile[1], MissingTile[2], d, es) = Graph
              /\ allow_access_list(Graph, MissingTile[1], MissingTile[2], d, es) = Graph
    /\ \A t \in ConnectTiles, d \in Cardinals :
          (homekey \notin DOMAIN nodesLUT \/ ~HasNode(t)) =>
              /\ ~connect_home_nodes_raises(Graph, homekey, t)
              /\ connect_home_nodes(Graph, homekey, t, d) = Graph
    /\ \A e \in AccessNames, es \in EntityLists :
          homekey \notin DOMAIN nodesLUT =>
              /\ ~home_access_raises(Graph, homekey)
              /\ ~home_access_list_raises(Graph, homekey, es)
              /\ deny_home_access(Graph, homekey, e) = Graph
              /\ allow_home_access(Graph, homekey, e) = Graph

-----------------------------------------------------------------------------
(* Properties of the access edits (specification SpecAccess)               *)

KnownClasses == {PACMAN, BLINKY, PINKY, INKY, CLYDE, FRUIT}
ProbeCols == (-1)..4
ProbeRows == (-1)..5
ProbeOffsets == {0, TILEWIDTH \div 2}
Allowed(n, d) == {n.access[d][i] : i \in DOMAIN n.access[d]}

(* C16: get_node_from_pixels and get_node_from_tiles return the node       *)
(* stored under the key when there is one and None when there is none      *)
(* (no raising path, nodesLUT only read), and get_node_from_tiles(col,     *)
(* row) equals get_node_from_pixels(col*TILEWIDTH, row*TILEHEIGHT).        *)
C16_LookupTotal ==
    /\ \A col \in ProbeCols, row \in ProbeRows :
          LET r == get_node_from_tiles(Graph, col, row)
              k == <<col * TILEWIDTH, row * TILEHEIGHT>>
          IN /\ r = get_node_from_pixels(Graph, col * TILEWIDTH, row * TILEHEIGHT)
             /\ k \in DOMAIN nodesLUT => (r = nodesLUT[k] /\ r # None)
             /\ k \notin DOMAIN nodesLUT => r = None
    /\ \A col \in ProbeCols, row \in ProbeRows, ox \in ProbeOffsets, oy \in ProbeOffsets :
          LET k == <<col * TILEWIDTH + ox, row * TILEHEIGHT + oy>>
              r == get_node_from_pixels(Graph, k[1], k[2])
          IN /\ k \in DOMAIN nodesLUT => (r = nodesLUT[k] /\ r # None)
             /\ k \notin DOMAIN nodesLUT => r = None

(* C16 witness: deny_access has just edited the node it looked up by tile, *)
(* home nodes exist, and a lookup of a tile without a node gives None.     *)
C16_Witness ==
    /\ last.op = "deny_access"
    /\ homekey # NoKey
    /\ get_node_from_tiles(Graph, 2, 0) # None
    /\ get_node_from_pixels(Graph, 2 * TILEWIDTH, 0) = get_node_from_tiles(Graph, 2, 0)
    /\ PACMAN \notin Allowed(heap[get_node_from_tiles(Graph, 2, 0)], DOWN)
    /\ get_node_from_tiles(Graph, MissingTile[1], MissingTile[2]) = None
    /\ get_node_from_pixels(Graph, 2 * TILEWIDTH + 8, 0) = None

(* C18: access edits are idempotent: for every node, cardinal direction    *)
(* and entity class, deny_access twice leaves what deny_access once        *)
(* leaves, denying an already denied class changes nothing, and likewise   *)
(* for allow_access.                                                       *)
C18_AccessIdempotent ==
    \A n \in DOMAIN heap, d \in Cardinals, e \in KnownClasses :
        LET denied == Node_deny_access(heap[n], d, e)
            allowed == Node_allow_access(heap[n], d, e)
        IN /\ Node_deny_access(denied, d, e) = denied
           /\ e \notin Allowed(heap[n], d) => denied = heap[n]
           /\ e \notin Allowed(denied, d)
           /\ Node_allow_access(allowed, d, e) = allowed
           /\ e \in Allowed(heap[n], d) => allowed = heap[n]
           /\ e \in Allowed(allowed, d)

(* C18 witness: after access calls a node has a class denied in one        *)
(* direction and a class that was denied and allowed again in another.     *)
C18_Witness ==
    /\ last.op \in {"deny_access", "allow_access"}
    /\ \E n \in DOMAIN heap, d \in Cardinals, dd \in Cardinals :
          /\ PACMAN \notin Allowed(heap[n], d)
          /\ heap[n].access[dd] # AllEntities
          /\ Allowed(heap[n], dd) = KnownClasses

(* C19: for every node, cardinal direction and entity class currently      *)
(* allowed, deny_access followed by allow_access for the same node,        *)
(* direction and class leaves the node's access state (the set of classes  *)
(* allowed in each direction) as it was.                                   *)
C19_DenyThenAllowRestores ==
    \A n \in DOMAIN heap, d \in Cardinals, e \in KnownClasses :
        e \in Allowed(heap[n], d) =>
            LET after == Node_allow_access(Node_deny_access(heap[n], d, e), d, e)
            IN /\ DOMAIN after.access = DOMAIN heap[n].access
               /\ \A dd \in Cardinals :
                     /\ Allowed(after, dd) = Allowed(heap[n], dd)
                     /\ Len(after.access[dd]) = Len(heap[n].access[dd])
               /\ after.neighbors = heap[n].neighbors
               /\ after.position = heap[n].position

(* C19 witness: a class was denied and allowed again at a node: the same   *)
(* classes are allowed as on a new node, the class now being last in the   *)
(* list.                                                                   *)
C19_Witness ==
    /\ last.op = "allow_access"
    /\ \E n \in DOMAIN heap, d \in Cardinals :
          /\ Allowed(heap[n], d) = KnownClasses
          /\ Len(heap[n].access[d]) = Cardinality(KnownClasses)
          /\ heap[n].access[d] # AllEntities
          /\ heap[n].access[d][Len(heap[n].access[d])] = PACMAN

(* only the DOWN access list of the home node differs between g and the    *)
(* current node group                                                      *)
OnlyHomeDownEdited(g) ==
    LET home == nodesLUT[homekey]
    IN /\ g.nodesLUT = nodesLUT
       /\ DOMAIN g.heap = DOMAIN heap
       /\ \A n \in DOMAIN heap : n # home => g.heap[n] = heap[n]
       /\ g.heap[home].neighbors = heap[home].neighbors
       /\ g.heap[home].position = heap[home].position
       /\ DOMAIN g.heap[home].access = DOMAIN heap[home].access
       /\ \A d \in Cardinals : d # DOWN => g.heap[home].access[d] = heap[home].access[d]

(* C21: deny_home_access / allow_home_access and their list variants       *)
(* modify only the DOWN access list of the home node recorded by           *)
(* create_home_nodes, the node at tile (xoffset+2, yoffset); no other      *)
(* direction of that node and no other node's access changes.              *)
C21_HomeAccessFrame ==
    homekey # NoKey =>
        /\ homekey \in DOMAIN nodesLUT
        /\ \E off \in HomeOffsets :
              /\ homekey = <<(off[1] + 2) * TILEWIDTH, off[2] * TILEHEIGHT>>
              /\ get_node_from_tiles(Graph, off[1] + 2, off[2]) = nodesLUT[homekey]
        /\ \A e \in KnownClasses :
              /\ OnlyHomeDownEdited(deny_home_access(Graph, homekey, e))
              /\ OnlyHomeDownEdited(allow_home_access(Graph, homekey, e))
              /\ e \notin Allowed(deny_home_access(Graph, homekey, e).heap[nodesLUT[homekey]], DOWN)
              /\ e \in Allowed(allow_home_access(Graph, homekey, e).heap[nodesLUT[homekey]], DOWN)
        /\ \A es \in EntityLists :
              /\ OnlyHomeDownEdited(deny_home_access_list(Graph, homekey, es))
              /\ OnlyHomeDownEdited(allow_home_access_list(Graph, homekey, es))

(* C21 witness: a home access call has just denied PACMAN the way DOWN     *)
(* from the home node, whose other lists are as on a new node.             *)
C21_Witness ==
    /\ last.op \in {"deny_home_access", "deny_home_access_list"}
    /\ ~last.raised
    /\ homekey # NoKey
    /\ PACMAN \notin Allowed(heap[nodesLUT[homekey]], DOWN)
    /\ \A d \in Cardinals : d # DOWN => heap[nodesLUT[homekey]].access[d] = AllEntities
    /\ \A n \in DOMAIN heap : n # nodesLUT[homekey] => heap[n].access[DOWN] = AllEntities

(* tiles of the home grid that hold a node, relative to its offset *)
HomeNodeTiles ==
    {<<2, 0>>, <<0, 2>>, <<4, 2>>, <<0, 3>>, <<2, 3>>, <<4, 3>>, <<0, 4>>, <<4, 4>>}
HomeKeys(off) == {<<(off[1] + t[1]) * TILEWIDTH, (off[2] + t[2]) * TILEHEIGHT>> : t \in HomeNodeTiles}

(* C33: create_home_nodes creates exactly the eight nodes of the home      *)
(* grid, linked only to each other, the home node at (xoffset+2, yoffset)  *)
(* having DOWN = the centre node of row 3 and no other neighbor; no node   *)
(* that existed before has a neighbor, portal link or access list changed. *)
C33_HomeClusterIsolated ==
    \A off \in HomeOffsets :
        LET g == create_home_nodes(Graph, off[1], off[2])
            new == (Len(heap) + 1)..Len(g.heap)
            home == g.nodesLUT[<<(off[1] + 2) * TILEWIDTH, off[2] * TILEHEIGHT>>]
            centre == g.nodesLUT[<<(off[1] + 2) * TILEWIDTH, (off[2] + 3) * TILEHEIGHT>>]
        IN /\ Len(g.heap) = Len(heap) + 8
           /\ \A n \in DOMAIN heap : g.heap[n] = heap[n]
           /\ {g.heap[n].position : n \in new} = HomeKeys(off)
           /\ DOMAIN g.nodesLUT = DOMAIN nodesLUT \cup HomeKeys(off)
           /\ \A k \in DOMAIN g.nodesLUT :
                 IF k \in HomeKeys(off)
                 THEN g.nodesLUT[k] \in new /\ g.heap[g.nodesLUT[k]].position = k
                 ELSE g.nodesLUT[k] = nodesLUT[k]
           /\ \A n \in new, d \in AllDirections : g.heap[n].neighbors[d] \in new \cup {None}
           /\ g.heap[home].neighbors[DOWN] = centre
           /\ \A d \in AllDirections \ {DOWN} : g.heap[home].neighbors[d] = None

(* C33 witness: create_home_nodes has just laid the home grid over a tile  *)
(* of the maze: the maze node of that tile keeps its links and the home    *)
(* node leads DOWN into the cluster.                                       *)
C33_Witness ==
    /\ last.op = "create_home_nodes"
    /\ homekey \in DOMAIN nodesLUT
    /\ heap[nodesLUT[homekey]].neighbors[DOWN] # None
    /\ \E n \in DOMAIN heap :
          /\ heap[n].position = homekey
          /\ n # nodesLUT[homekey]
          /\ heap[n].neighbors[UP] # None

(* g differs from the current node group at most in whether class e is in *)
(* the access list of node n for direction d                               *)
OnlyMembershipEdited(g, n, d, e) ==
    /\ g.nodesLUT = nodesLUT
    /\ DOMAIN g.heap = DOMAIN heap
    /\ \A m \in DOMAIN heap :
          /\ g.heap[m].neighbors = heap[m].neighbors
          /\ g.heap[m].position = heap[m].position
          /\ \A dd \in Cardinals :
                IF m = n /\ dd = d
                THEN Allowed(g.heap[m], dd) \ {e} = Allowed(heap[m], dd) \ {e}
                ELSE g.heap[m].access[dd] = heap[m].access[dd]

(* C34: deny_access / allow_access for node N, direction d and class e     *)
(* change only whether e is in N.access[d]: the other classes of that      *)
(* list, the other directions of N, the lists of every other node and all  *)
(* neighbor links stay as they are.                                        *)
C34_AccessPerNodeAndDirection ==
    \A t \in AccessTiles, d \in AccessDirections, e \in KnownClasses :
        LET dg == deny_access(Graph, t[1], t[2], d, e)
            ag == allow_access(Graph, t[1], t[2], d, e)
        IN IF HasNode(t)
           THEN /\ OnlyMembershipEdited(dg, NodeOf(t), d, e)
                /\ OnlyMembershipEdited(ag, NodeOf(t), d, e)
                /\ e \notin Allowed(dg.heap[NodeOf(t)], d)
                /\ e \in Allowed(ag.heap[NodeOf(t)], d)
           ELSE dg = Graph /\ ag = Graph

(* C34 witness: deny_access has just taken PACMAN out of one direction of  *)
(* a node whose other direction, and whose other classes, are untouched.   *)
C34_Witness ==
    /\ last.op = "deny_access"
    /\ \E t \in AccessTiles :
          /\ HasNode(t)
          /\ PACMAN \notin Allowed(heap[NodeOf(t)], DOWN)
          /\ Allowed(heap[NodeOf(t)], DOWN) = KnownClasses \ {PACMAN}
          /\ heap[NodeOf(t)].access[LEFT] = AllEntities
          /\ \A n \in DOMAIN heap : n # NodeOf(t) => heap[n].access[DOWN] = AllEntities

-----------------------------------------------------------------------------
(* Properties of the build (specification SpecBuild)                       *)

Built == last.op = "NodeGroup"
Rows == 1..Len(level)
Cols == 1..Len(level[1])
IsNodeCell(r, c) == level[r][c] \in nodeSymbols
IsPathCell(r, c) == level[r][c] \in pathSymbols
CellKey(r, c) == <<(c - 1) * TILEWIDTH, (r - 1) * TILEHEIGHT>>
CellNode(r, c) == nodesLUT[CellKey(r, c)]
RowClear(r, c1, c2) == \A c \in (c1 + 1)..(c2 - 1) : IsPathCell(r, c)
ColClear(c, r1, r2) == \A r \in (r1 + 1)..(r2 - 1) : IsPathCell(r, c)

(* C11: after the build two node cells of a row are RIGHT/LEFT neighbors   *)
(* exactly when every cell strictly between them is a path symbol, two     *)
(* node cells of a column are DOWN/UP neighbors exactly when every cell    *)
(* strictly between them is a path symbol, and a node without such a       *)
(* partner in a direction has neighbor None there.                         *)
C11_LinksIffClearRun ==
    Built =>
        /\ \A r \in Rows, c1 \in Cols, c2 \in Cols :
              (c1 < c2 /\ IsNodeCell(r, c1) /\ IsNodeCell(r, c2)) =>
                  /\ heap[CellNode(r, c1)].neighbors[RIGHT] = CellNode(r, c2)
                        <=> RowClear(r, c1, c2)
                  /\ heap[CellNode(r, c2)].neighbors[LEFT] = CellNode(r, c1)
                        <=> RowClear(r, c1, c2)
        /\ \A c \in Cols, r1 \in Rows, r2 \in Rows :
              (r1 < r2 /\ IsNodeCell(r1, c) /\ IsNodeCell(r2, c)) =>
                  /\ heap[CellNode(r1, c)].neighbors[DOWN] = CellNode(r2, c)
                        <=> ColClear(c, r1, r2)
                  /\ heap[CellNode(r2, c)].neighbors[UP] = CellNode(r1, c)
                        <=> ColClear(c, r1, r2)
        /\ \A r \in Rows, c \in Cols :
              IsNodeCell(r, c) =>
                  LET n == heap[CellNode(r, c)].neighbors
                  IN /\ n[RIGHT] = None <=>
                          ~\E c2 \in Cols : c < c2 /\ IsNodeCell(r, c2) /\ RowClear(r, c, c2)
                     /\ n[LEFT] = None <=>
                          ~\E c2 \in Cols : c2 < c /\ IsNodeCell(r, c2) /\ RowClear(r, c2, c)
                     /\ n[DOWN] = None <=>
                          ~\E r2 \in Rows : r < r2 /\ IsNodeCell(r2, c) /\ ColClear(c, r, r2)
                     /\ n[UP] = None <=>
                          ~\E r2 \in Rows : r2 < r /\ IsNodeCell(r2, c) /\ ColClear(c, r2, r)

(* C11 witness: a built grid where two nodes are linked across a path      *)
(* cell, two nodes of another row are kept apart by a blocker, and two     *)
(* nodes of a column are linked.                                           *)
C11_Witness ==
    /\ Built
    /\ \E r \in Rows, c \in Cols :
          /\ c + 2 \in Cols
          /\ IsNodeCell(r, c) /\ IsPathCell(r, c + 1) /\ IsNodeCell(r, c + 2)
          /\ heap[CellNode(r, c)].neighbors[RIGHT] = CellNode(r, c + 2)
    /\ \E r \in Rows, c \in Cols :
          /\ c + 2 \in Cols
          /\ IsNodeCell(r, c) /\ IsNodeCell(r, c + 2)
          /\ ~IsNodeCell(r, c + 1) /\ ~IsPathCell(r, c + 1)
          /\ heap[CellNode(r, c)].neighbors[RIGHT] = None
          /\ heap[CellNode(r, c + 2)].neighbors[LEFT] = None
    /\ \E r \in Rows, c \in Cols :
          /\ r + 1 \in Rows
          /\ IsNodeCell(r, c) /\ IsNodeCell(r + 1, c)
          /\ heap[CellNode(r, c)].neighbors[DOWN] = CellNode(r + 1, c)

(* offsets create_node_table is called with: the default and those of     *)
(* create_home_nodes                                                       *)
TableOffsets == {<<0, 0>>} \cup HomeOffsets
NodeCells == {rc \in Rows \X Cols : IsNodeCell(rc[1], rc[2])}
ScaledKey(rc, off) ==
    <<(rc[2] - 1 + off[1]) * TILEWIDTH, (rc[1] - 1 + off[2]) * TILEHEIGHT>>

(* C12: after create_node_table on a rectangular grid the keys of nodesLUT *)
(* are exactly the scaled coordinates ((col+xoffset)*TILEWIDTH,            *)
(* (row+yoffset)*TILEHEIGHT) of the node-symbol cells, one node per such   *)
(* cell, distinct cells under distinct keys, none for other cells, and     *)
(* each node's position equals its key.                                    *)
C12_KeysAreNodeCells ==
    /\ \A off \in TableOffsets :
          LET g == create_node_table(EmptyGroup, level, off[1], off[2])
          IN /\ DOMAIN g.nodesLUT = {ScaledKey(rc, off) : rc \in NodeCells}
             /\ \A rc1 \in NodeCells, rc2 \in NodeCells :
                   rc1 # rc2 =>
                       /\ ScaledKey(rc1, off) # ScaledKey(rc2, off)
                       /\ g.nodesLUT[ScaledKey(rc1, off)] # g.nodesLUT[ScaledKey(rc2, off)]
             /\ Len(g.heap) = Cardinality(NodeCells)
             /\ \A k \in DOMAIN g.nodesLUT :
                   /\ g.nodesLUT[k] \in DOMAIN g.heap
                   /\ g.heap[g.nodesLUT[k]].position = k
    /\ Built =>
          /\ DOMAIN nodesLUT = {CellKey(rc[1], rc[2]) : rc \in NodeCells}
          /\ Len(heap) = Cardinality(NodeCells)
          /\ \A k \in DOMAIN nodesLUT : heap[nodesLUT[k]].position = k

(* C12 witness: a built grid with node cells, a path cell and a blocker,   *)
(* whose table holds exactly the node cells.                               *)
C12_Witness ==
    /\ Built
    /\ Cardinality(NodeCells) >= 3
    /\ \E rc \in Rows \X Cols : IsPathCell(rc[1], rc[2])
    /\ \E rc \in Rows \X Cols : ~IsPathCell(rc[1], rc[2]) /\ ~IsNodeCell(rc[1], rc[2])
    /\ Cardinality(DOMAIN nodesLUT) = Cardinality(NodeCells)
    /\ \E rc \in NodeCells : rc[1] > 1 /\ rc[2] > 1 /\ CellKey(rc[1], rc[2]) \in DOMAIN nodesLUT

FreshNode(n) ==
    /\ DOMAIN n.access = {UP, DOWN, LEFT, RIGHT}
    /\ PORTAL \notin DOMAIN n.access
    /\ \A d \in {UP, DOWN, LEFT, RIGHT} :
          /\ Allowed(n, d) = KnownClasses
          /\ Len(n.access[d]) = 6
    /\ DOMAIN n.neighbors = {UP, DOWN, LEFT, RIGHT, PORTAL}
    /\ \A d \in {UP, DOWN, LEFT, RIGHT, PORTAL} : n.neighbors[d] = None

(* C20: a newly created node allows PACMAN, BLINKY, PINKY, INKY, CLYDE and *)
(* FRUIT in each of UP, DOWN, LEFT and RIGHT, has no access list for       *)
(* PORTAL, and has its five neighbor entries (four cardinal and PORTAL)    *)
(* set to None.                                                            *)
C20_NewNodeDefaults ==
    /\ \A rc \in Rows \X Cols :
          FreshNode(Node(CellKey(rc[1], rc[2])[1], CellKey(rc[1], rc[2])[2]))
    /\ LET g == create_node_table(EmptyGroup, level, 0, 0)
       IN \A n \in DOMAIN g.heap : FreshNode(g.heap[n])
    /\ Built => \A n \in DOMAIN heap :
          /\ DOMAIN heap[n].access = {UP, DOWN, LEFT, RIGHT}
          /\ \A d \in Cardinals : Allowed(heap[n], d) = KnownClasses

(* C20 witness: a built grid holds a node that no scan linked, still as    *)
(* it was created, next to nodes that were linked.                         *)
C20_Witness ==
    /\ Built
    /\ \E n \in DOMAIN heap : FreshNode(heap[n])
    /\ \E n \in DOMAIN heap : ~FreshNode(heap[n])

-----------------------------------------------------------------------------
(* Properties of the pause timer (specification SpecPause)                 *)

PauseTicked == last.op = "update"
(* a duration was given by the last setPause and no tick has yet reached it *)
Armed == last.pauseTime # NoTime /\ last.fired = 0
Expiring(dt) == Armed /\ last.elapsed + dt >= last.pauseTime

(* C22: after setPause(D, f) update returns f on exactly the first tick at *)
(* which the dt accumulated since the call reaches D and None on every     *)
(* other tick; with no duration set it returns None and changes no field.  *)
C22_FiresExactlyOnce ==
    [][last'.op = "update" =>
          /\ last'.returned = IF Expiring(last'.dt) THEN last.func ELSE NoFunc
          /\ last'.fired <= 1
          /\ pause.pauseTime = NoTime => pause' = pause /\ last'.returned = NoFunc]_vars
C22_Witness ==
    /\ PauseTicked
    /\ last.pauseTime = 3
    /\ last.dt = 1
    /\ last.elapsed = 3
    /\ last.returned = "next_level"
    /\ last.fired = 1

(* C23: while a duration is set a tick that does not reach it leaves the   *)
(* timer no smaller and below the duration; the tick that reaches it sets  *)
(* timer to 0, paused to false and the duration to None.                   *)
C23_TimerBelowDurationUntilExpiry ==
    [][last'.op = "update" /\ Armed =>
          IF Expiring(last'.dt)
          THEN /\ pause'.timer = 0
               /\ pause'.paused = FALSE
               /\ pause'.pauseTime = NoTime
          ELSE /\ pause'.timer >= pause.timer
               /\ pause'.pauseTime = last.pauseTime
               /\ pause'.timer < pause'.pauseTime]_vars
C23_Witness ==
    /\ PauseTicked
    /\ last.pauseTime = 3
    /\ last.elapsed = 4
    /\ last.fired = 1
    /\ pause.timer = 0
    /\ ~pause.paused
    /\ pause.pauseTime = NoTime

(* C24: setPause inverts paused whatever its arguments are, sets timer to  *)
(* 0 and stores the pauseTime and func it was given.                       *)
C24_SetPauseToggles ==
    [][last'.op = "setPause" =>
          /\ pause'.paused = ~pause.paused
          /\ pause'.timer = 0
          /\ pause'.pauseTime = last'.pauseTime
          /\ pause'.func = last'.func]_vars
C24_Witness ==
    /\ last.op = "setPause"
    /\ last.playerPaused
    /\ ~pause.paused
    /\ pause.timer = 0
    /\ pause.pauseTime = 2
    /\ pause.func = "reset_level"

-----------------------------------------------------------------------------
(* Properties of the collision test (specification SpecCollide)            *)

Collided == last.op = "collideCheck"
Separation2 == Dist2(bodies[1].position, bodies[2].position)
RadiusSum == bodies[1].collideRadius + bodies[2].collideRadius

(* C25: collideCheck returns true exactly when the squared distance of the *)
(* two positions is at most the square of the sum of the two radii, and    *)
(* the call leaves both entities as they were.                              *)
C25_CollideIffWithinRadii ==
    [][last'.op = "collideCheck" =>
          /\ last'.returned <=> (Separation2 <= RadiusSum * RadiusSum)
          /\ bodies' = bodies]_vars
C25_Witness ==
    /\ Collided
    /\ last.returned
    /\ RadiusSum > 0
    /\ Separation2 = RadiusSum * RadiusSum

(* C26: the collision test gives the same answer whichever of the two      *)
(* entities is the receiver.                                                *)
C26_CollideSymmetric ==
    collideCheck(bodies[1], bodies[2]) = collideCheck(bodies[2], bodies[1])
C26_Witness ==
    /\ Collided
    /\ last.self = 2
    /\ bodies[1].collideRadius # bodies[2].collideRadius
    /\ bodies[1].position # bodies[2].position
    /\ last.returned
    /\ collideCheck(bodies[1], bodies[2])

-----------------------------------------------------------------------------
(* Properties of goal seeking (specification SpecGoal)                     *)

GoalChosen == last.op = "goalDirection"
Members(s) == {s[i] : i \in DOMAIN s}
Projected(n, d) == VAdd(heap[n].position, VScale(directions(d), TILEWIDTH))
(* place of a cardinal direction in the order UP, DOWN, LEFT, RIGHT *)
Rank(d) == CHOOSE i \in DOMAIN CardinalSeq : CardinalSeq[i] = d

-----------------------------------------------------------------------------
(* Properties of Entity.reset (specification Spec)                         *)

(* speeds and visibility an entity may have when it is reset *)
ResetSpeeds == {0, setSpeed(50), setSpeed(100), setSpeed(200)}
ResetFrom == {[EntitySelf EXCEPT !.speed = s, !.visible = v] :
                 s \in ResetSpeeds, v \in BOOLEAN}

(* C28: reset puts the entity on its start node with target = node =       *)
(* startNode, at that node's position, direction STOP, visible, with the   *)
(* speed setSpeed(100) of construction; startNode is kept and a second     *)
(* reset changes nothing more.                                              *)
C28_ResetRestoresDefaults ==
    HasEntity =>
        /\ \A self \in ResetFrom :
              LET r == Entity_reset(self)
              IN /\ r.node = self.startNode
                 /\ r.target = self.startNode
                 /\ r.startNode = self.startNode
                 /\ r.position = heap[self.startNode].position
                 /\ r.direction = STOP
                 /\ r.visible
                 /\ r.speed = setSpeed(100)
                 /\ Entity_reset(r) = r
        /\ (last.op = "reset" /\ cls = "Entity") => Entity_reset(EntitySelf) = EntitySelf
C28_Witness ==
    /\ cls = "Entity"
    /\ last.op = "reset"
    /\ node = startNode
    /\ target = startNode
    /\ position = heap[startNode].position
    /\ direction = STOP
    /\ \E self \in ResetFrom :
          /\ self.speed # setSpeed(100)
          /\ ~self.visible
          /\ Entity_reset(self) = EntitySelf

-----------------------------------------------------------------------------
(* Properties of validDirections (specification Spec)                      *)

LegalCardinals(nm, n) == {d \in Cardinals : Legal(nm, n, d)}

(* C30: when some cardinal direction other than the reverse of the current *)
(* direction is legal, validDirections returns exactly the legal           *)
(* directions other than the reverse, each once, in the order UP, DOWN,    *)
(* LEFT, RIGHT; with current direction STOP that is every legal direction. *)
C30_ValidDirectionsLegalNonReverse ==
    HasEntity =>
        \A n \in DOMAIN heap, nm \in EntityNames, dir \in Cardinals \cup {STOP} :
            LET r == validDirections(nm, n, dir)
                keep == LegalCardinals(nm, n) \ {dir * (-1)}
            IN keep # {} =>
                  /\ Members(r) = keep
                  /\ Len(r) = Cardinality(keep)
                  /\ \A i, j \in DOMAIN r : i < j => Rank(r[i]) < Rank(r[j])
                  /\ dir # STOP => dir * (-1) \notin Members(r)
                  /\ dir = STOP => Members(r) = LegalCardinals(nm, n)

(* C30 witness: an entity arrived at a node where its reverse was legal    *)
(* and was left out of a list of two other legal directions.               *)
C30_Witness ==
    /\ cls = "Entity" /\ last.op = "update" /\ last.overshot
    /\ Len(last.dirs) = 2
    /\ Members(last.dirs) \subseteq LegalCardinals(name, last.arrived)
    /\ \E d \in LegalCardinals(name, last.arrived) : d \notin Members(last.dirs)

-----------------------------------------------------------------------------
(* Properties of the frame loop (specification SpecGame)                   *)

PausedFrame == last.op = "update" /\ last.paused

(* C29, as stated: in a frame in which the pause flag is set the ghosts    *)
(* and the fruit are not ticked while Pac-Man and the pause timer are.     *)
C29_PausedFrameTicksPlayer ==
    PausedFrame =>
        /\ ~last.ghosts
        /\ ~last.fruitTicked
        /\ last.pacman
        /\ last.pauseTimer

(* C29, as the code has it: in a frame that begins with the pause flag set *)
(* the ghosts and the fruit are not ticked and the pause timer is; Pac-Man *)
(* is ticked exactly when he is not alive.                                 *)
C29_PausedFrameTicksDeadPlayer ==
    PausedFrame =>
        /\ ~last.ghosts
        /\ ~last.fruitTicked
        /\ last.pauseTimer
        /\ last.pacman <=> ~last.alive
C29_Witness ==
    /\ PausedFrame
    /\ ~last.alive
    /\ last.fruit
    /\ last.pacman
    /\ ~last.fruitTicked
    /\ ~last.ghosts

(* a frame in which Pac-Man died, and one in which the last pellet went *)
DeathFrame == last.op = "update" /\ last.died
LastPelletFrame == last.op = "update" /\ last.lastPellet

(* C31: after a frame in which a ghost kills Pac-Man the game is paused    *)
(* with reset_level or restart_game as the pending callback, whatever else *)
(* the frame handled.                                                       *)
C31_DeathPausesUntilReset ==
    DeathFrame =>
        /\ pause.paused
        /\ pause.func \in {"reset_level", "restart_game"}

(* C32: after a frame in which the last pellet was eaten the game is       *)
(* paused with next_level as the pending callback, whatever ghost          *)
(* collision the frame handled afterwards.                                  *)
C32_LastPelletPausesUntilNextLevel ==
    LastPelletFrame =>
        /\ pause.paused
        /\ pause.func = "next_level"

(* C39: a frame takes one life when Pac-Man dies in it and none otherwise, *)
(* however many ghosts collide, and Pac-Man dies only if he was alive.     *)
C39_OneLifePerDeath ==
    last.op = "update" =>
        /\ last.livesLost = IF last.died THEN 1 ELSE 0
        /\ last.died => last.alive
        /\ ~last.alive => last.livesLost = 0
C39_Witness ==
    /\ DeathFrame
    /\ last.hits = <<"CHASE", "CHASE">>
    /\ last.livesLost = 1
    /\ ~game.alive

(* C38: setPause restarts the timer from 0, and a callback returned by     *)
(* update is always the one stored by the most recent setPause, which had  *)
(* a duration; a callback that setPause replaced while it was pending is   *)
(* never returned, and after a setPause without duration nothing is.       *)
C38_RearmDiscardsPending ==
    [][/\ last'.op = "setPause" => pause'.timer = 0
       /\ (last'.op = "update" /\ last'.returned # NoFunc) =>
             /\ last'.returned = last.func
             /\ last.pauseTime # NoTime
             /\ last.discarded # last.func => last'.returned # last.discarded]_vars
C38_Witness ==
    /\ PauseTicked
    /\ last.discarded = "next_level"
    /\ last.func = "reset_level"
    /\ last.returned = "reset_level"
    /\ last.fired = 1

-----------------------------------------------------------------------------
(* Properties of travel along edges (specification Spec)                   *)

(* an entity that has not died, between two different nodes *)
OnEdge == HasEntity /\ alive /\ target # node

(* C35: no update tick of an entity whose disablePortal flag is set puts   *)
(* the entity on the PORTAL partner of the node it arrived at: after an    *)
(* overshoot tick of such an entity, base Entity or PacMan, its node is    *)
(* the node it arrived at.                                                 *)
C35_DisabledPortalNeverUsed ==
    (Ticked /\ disablePortal /\ last.overshot) => node = last.arrived

(* C36: whenever an entity is placed or moving between two nodes its class *)
(* is in node.access[direction], after construction, reset and every       *)
(* update tick, reversals and setBetweenNodes included.                    *)
C36_TravelsOnlyPermittedEdges ==
    OnEdge =>
        /\ direction \in Cardinals
        /\ name \in AccessSet(node, direction)

(* C37: whenever target is not node the direction is cardinal and target   *)
(* is node.neighbors[direction], for an entity that has not died.          *)
C37_TargetIsNeighborInDirection ==
    OnEdge =>
        /\ direction \in Cardinals
        /\ target = heap[node].neighbors[direction]
C37_Witness ==
    /\ OnEdge
    /\ cls = "PacMan"
    /\ Ticked
    /\ last.reversed
    /\ position # heap[node].position
    /\ target = heap[node].neighbors[direction]

(* an entity standing on a node, not moving, with a legal way out *)
StandingWithWayOut ==
    /\ cls = "Entity"
    /\ direction = STOP
    /\ target = node
    /\ position = heap[node].position
    /\ \E d \in Cardinals : Legal(name, node, d)

(* C40: a base Entity standing on a node with direction STOP and at least  *)
(* one traversal-legal direction is between two nodes after its next tick. *)
C40_StandingEntityStartsMoving ==
    [][(StandingWithWayOut /\ last'.op = "update") => target' # node']_vars

(* Arrival: under ticks with dt > 0 and no reversal, an entity moving      *)
(* towards a target other than its node has a tick that overshoots and     *)
(* arrives at that target.                                                  *)
NodeIds == 1..Len(NodeGroup(maze).heap)
ArrivalGuaranteed ==
    \A t \in NodeIds :
        (HasEntity /\ direction # STOP /\ target = t /\ node # t)
            ~> (last.op = "update" /\ last.overshot /\ last.arrived = t)

====
